---- MODULE Spec2Model ----
(***************************************************************************)
(* A model of the multi-process trading system: the SharedPriceBook        *)
(* (shared_memory_utils.py), the delimiter framing and the connection      *)
(* loops of OrderBook.py, OrderManager.py and Strategy.py, and the price    *)
(* message parser of OrderBook.py.                                          *)
(*                                                                         *)
(* Text is a sequence of one-character strings, bytes are their code       *)
(* points; a price is kept in hundredths (float("1.5") is 150).            *)
(***************************************************************************)
EXTENDS Integers, Sequences, FiniteSets, TLC

(***************************************************************************)
(* Bounds of the model.                                                    *)
(***************************************************************************)
\* update() is called with prices 1..MaxPrice (in units, i.e. 100..MaxPrice*100 hundredths)
MaxPrice == 2

\* a peer writes at most MaxMsgs messages on one connection
MaxMsgs == 3

\* a consumer goes through at most MaxConns connections
MaxConns == 2

\* a price message concatenates at most MaxFields SYMBOL,PRICE pairs
MaxFields == 2

\* the Strategy generates at most MaxOrders orders
MaxOrders == 3

(***************************************************************************)
(* Program constants.                                                      *)
(***************************************************************************)
\* SHM_DTYPE: the symbol field is 'U10', ten characters wide
SymWidth == 10

\* MESSAGE_DELIMITER = b'\n': the byte 10
NL == 10

\* sock.recv(4096)
RecvMax == 4096

VARIABLES
    \* ---- the shared table (shared_memory_utils.py) ----
    shm,          \* the named storage: "none" | "exists"
    data_array,   \* the rows of the storage: sequence of [symbol, price]
    lock,         \* the mp.Lock: NoProc or the process holding it
    tpc,          \* position of each process in create / attach / update / read_all
    handle,       \* each process's SharedPriceBook object
    uarg,         \* arguments of the update() call in progress, per process
    ridx,         \* read_all: the row the comprehension is at, per process
    cur,          \* read_all: current_state built so far, per process
    snap,         \* the last dict read_all returned, per process (state), with the
                  \* history value `at`: snapAt when that call took the lock
    \* ---- history variables of the table ----
    committed,    \* per symbol: the value of the last update completed (0 at creation)
    snapAt,       \* per process: committed, copied when its read_all took the lock
    unlocked,     \* the kinds of price access that were made without holding the lock
    \* ---- one consumer and its peer (OrderBook.py, OrderManager.py, Strategy.py) ----
    role,         \* which consumer this is: "OB" | "OM" | "NEWS"
    conn,         \* number of the connection instance (0: none yet)
    cpc,          \* position in the connection loop:
                  \*   "connect" (DISCONNECTED, at connect()/accept()), "backoff" (in time.sleep),
                  \*   "read" (CONNECTED, about to call the read function),
                  \*   "recv" (CONNECTED, blocked in sock.recv), "handle" (a message was returned)
    peer,         \* the other end of the connection: "none" | "open" | "closed" | "reset"
    wire,         \* bytes the peer wrote on this connection that recv has not returned yet
    sent,         \* history: the payloads written whole (with delimiter) on this connection
    recv_buffer,  \* the module-global receive buffer
    raw,          \* raw_message / raw_order / raw_news: the message the last read returned
    openSocks,    \* connection instances whose consumer-side socket object is still open
    \* ---- history variables of the consumer ----
    received,     \* every byte recv returned on this connection
    returned,     \* every message the read function returned on this connection
    bufFrom,      \* for each byte of recv_buffer, the connection it was received on
    rawFrom,      \* for each character of raw, the connection it was received on
    recvCount,    \* number of sock.recv calls made on this connection
    burst,        \* the last chunk that arrived in an empty buffer and ended with the delimiter
    zeroRead,     \* whether recv returned b'' on this connection, and len(returned) then
    stale,        \* whether the buffer held bytes when this connection was established
    leftBy,       \* why this connection was left: "none" | "closed" | "error" | "parse"
    \* ---- the price consumer at one message (OrderBook.py run_orderbook) ----
    symbols,      \* the symbol list the system was started with
    raw_message,  \* the price message being handled
    ppc,          \* "read" (at receive_framed_message) | "parse" (in the loop over the
                  \*   symbols) | "handled" (the pass of the reading loop is over)
    pidx,         \* the position of `for symbol in symbols`
    parsed_ticks, \* the dict of the prices parsed from this message
    \* ---- history variables of the price consumer ----
    perr,         \* whether the handling of the last message ended in the ValueError handler
    fields,       \* the SYMBOL,PRICE pairs the sender concatenated into the last message
    before,       \* the rows of the table when the last message was received
    calls,        \* the update(symbol, price) calls made for the last message, in order
    \* ---- the order connection (Strategy.py, OrderManager.py) ----
    spc,          \* position of run_strategy: "top" (of the main loop) | "om_sleep" |
                  \*   "news_connect" | "run" (the execution loop) | "news_sleep"
    om_connected, \* the flag of run_strategy
    om_socket,    \* the one om_socket object: "fresh" | "failed" (a connect() on it failed) |
                  \*   "connected" | "broken" (connected, the peer is gone)
    om_state,     \* the OrderManager: "down" | "listening" (in accept) | "serving"
    om_wire,      \* the order ids sent that the OrderManager has not read yet
    order_counter,\* state.order_counter
    position,     \* state.position of one symbol: "NONE" | "LONG" | "SHORT"
    retry_ok,     \* whether connect() may be called again on a socket whose connect() failed
    \* ---- history variables of the order connection ----
    delivered,    \* the order ids the OrderManager received
    failed,       \* the order ids whose sendall raised
    \* ---- one producer (gateway.py price_streamer / news_streamer) ----
    gkind,        \* which streamer this is: "PRICE" | "NEWS"
    gpc,          \* "accept" (DISCONNECTED, in server_socket.accept()) | "stream" (CONNECTED,
                  \*   in the inner loop) | "sleep" (in time.sleep(1) of `except Exception`)
    gclient,      \* the consumer's end of the accepted connection: "none" | "up" | "gone"
    gconn,        \* number of connections accepted
    gticks,       \* messages written on the current connection
    gopen,        \* accepted sockets the streamer has not closed
    gdialed,      \* number of dialers that have connected to the listening port so far
                  \*   (dialer d is connection d; those above gconn wait in the backlog)
    \* ---- history variable of the producer ----
    gleft,        \* the write error that ended the last connection: "none" | "reset" | "pipe"
                  \*   (or "parse": the OrderManager failed on an order it had read)
    ggot,         \* history: per dialer, the messages the role exchanged with it
    \* ---- the life of the handles and of the storage ----
    closedH,      \* the processes whose handle had its self.shm.close() called
    \* ---- history variables of the storage ----
    unlinks,      \* number of times the storage was removed (shm.unlink() succeeded)
    unlinkedBy,   \* the processes whose handle removed it
    lastCleanup,  \* history: the last cleanup() call, what it found and what it did
    opened,       \* the attaching roles that have opened their stream socket
    dup,          \* the object a second SharedPriceBook(create=True) under the name left
    \* ---- run_system's shutdown path (main.py) ----
    mpc,          \* "start" (creating the table, starting the children) | "wait" (the wait
                  \*   loop, handler installed) | "term" (in cleanup_processes) | "exit"
                  \*   (run_system is left, the exit hooks are to run) | "done"
    passes,       \* number of times cleanup_processes has been entered
    trigger,      \* why the wait loop was left: "none" | "sigint" | "error" | "alldead"
    tidx          \* cleanup_processes: the position of `for p in processes`

tableVars == <<shm, data_array, lock, tpc, handle, uarg, ridx, cur, snap,
               committed, snapAt, unlocked>>

frameVars == <<role, conn, cpc, peer, wire, sent, recv_buffer, raw, openSocks,
               received, returned, bufFrom, rawFrom, recvCount, burst, zeroRead, stale, leftBy>>

priceVars == <<symbols, raw_message, ppc, pidx, parsed_ticks, perr, fields, before, calls>>

stratVars == <<spc, om_connected, om_socket, om_state, om_wire, order_counter, position,
               retry_ok, delivered, failed>>

prodVars == <<gkind, gpc, gclient, gconn, gticks, gopen, gleft, gdialed, ggot>>

lifeVars == <<closedH, unlinks, unlinkedBy, lastCleanup, opened, dup>>

shutVars == <<mpc, passes, trigger, tidx>>

vars == <<tableVars, frameVars, priceVars, stratVars, prodVars, lifeVars, shutVars>>

\* what the actions of one part leave alone: the variables of the other parts
\* (the price consumer writes the rows of the table itself)
notTable == <<frameVars, priceVars, stratVars, prodVars, lifeVars, shutVars>>

notFrame == <<tableVars, priceVars, stratVars, prodVars, lifeVars, shutVars>>

notPrice == <<frameVars, stratVars, prodVars, lifeVars, shutVars, shm, lock, tpc, handle, uarg, ridx, cur, snap,
              committed, snapAt, unlocked>>

notStrat == <<tableVars, frameVars, priceVars, prodVars, lifeVars, shutVars>>

notProd == <<tableVars, frameVars, priceVars, stratVars, lifeVars, shutVars>>

\* (the shutdown path acts on the table and on the handles itself)
notShut == <<frameVars, priceVars, stratVars, prodVars>>

(***************************************************************************)
(* Text helpers.                                                           *)
(***************************************************************************)
\* ord(c) of the characters the model uses
Code(c) ==
    CASE c = " " -> 32 [] c = "," -> 44 [] c = "." -> 46
      [] c = "1" -> 49 [] c = "2" -> 50 [] c = "7" -> 55
      [] c = "A" -> 65 [] c = "B" -> 66 [] c = "Z" -> 90
      [] c = "G" -> 71 [] c = "K" -> 75 [] c = "X" -> 88

RECURSIVE StrLess(_, _)
\* a < b for Python str: lexicographic by code point
StrLess(a, b) ==
    IF b = <<>> THEN FALSE
    ELSE IF a = <<>> THEN TRUE
    ELSE IF Code(Head(a)) # Code(Head(b)) THEN Code(Head(a)) < Code(Head(b))
    ELSE StrLess(Tail(a), Tail(b))

RECURSIVE Insert(_, _)
Insert(x, l) ==
    IF l = <<>> THEN <<x>>
    ELSE IF StrLess(Head(l), x) \/ Head(l) = x THEN <<Head(l)>> \o Insert(x, Tail(l))
    ELSE <<x>> \o l

RECURSIVE sorted(_)
\* sorted(symbols)
sorted(l) == IF l = <<>> THEN <<>> ELSE Insert(Head(l), sorted(Tail(l)))

\* storing a str in a 'U10' field keeps its first ten characters
U10(s) == SubSeq(s, 1, IF Len(s) < SymWidth THEN Len(s) ELSE SymWidth)

Range(f) == {f[i] : i \in DOMAIN f}

(***************************************************************************)
(* The shared table.                                                       *)
(***************************************************************************)
\* main.py SYMBOLS, in the order the list is written (not sorted)
SYMBOLS == << <<"B">>, <<"A">> >>

\* a symbol outside the table's universe
Foreign == <<"Z">>

Procs == {"main", "ob", "st"}
NoProc == "nobody"

\* the prices a caller passes to update(), in hundredths
Prices == {100 * i : i \in 1..MaxPrice}

EmptyDict == [s \in {} |-> 0]

\* d[k] = v of a Python dict
DictSet(d, k, v) == [s \in DOMAIN d \cup {k} |-> IF s = k THEN v ELSE d[s]]

\* no update() call in progress
NoArg == [symbol |-> <<>>, price |-> 0]

NoHandle == [open |-> FALSE, symbols |-> <<>>, is_creator |-> FALSE]

\* self.symbol_to_index[symbol]: rows are numbered from 1 here
symbol_to_index(h, symbol) ==
    CHOOSE i \in 1..Len(h.symbols) :
        /\ h.symbols[i] = symbol
        /\ \A j \in (i + 1)..Len(h.symbols) : h.symbols[j] # symbol

RowsAfterUpdateAll(rows, h, symbol, price) ==
    [i \in DOMAIN rows |-> [rows[i] EXCEPT !.price = price]]

\* the rows after update(symbol, price) through the handle h
RowsAfterUpdate(rows, h, symbol, price) ==
    IF symbol \notin Range(h.symbols) THEN rows
    ELSE [rows EXCEPT ![symbol_to_index(h, symbol)].price = price]

\* a fresh POSIX segment is zero-filled: '' and 0.0 in every record
ZeroRows(n) == [i \in 1..n |-> [symbol |-> <<>>, price |-> 0]]

\* the prices of the table by stored symbol (what an atomic copy would give)
RowsAsDict(rows) ==
    [s \in {rows[i].symbol : i \in DOMAIN rows} |->
        rows[CHOOSE i \in DOMAIN rows :
                /\ rows[i].symbol = s
                /\ \A j \in DOMAIN rows : rows[j].symbol = s => j <= i].price]

\* `with self.lock:` can enter only when nobody holds the lock
LockFreeNoMutex(p) == TRUE

LockFree(p) == lock = NoProc

\* history: a price access by p, of the given kind, made without the lock
Access(p, kind) == IF lock = p THEN unlocked ELSE unlocked \cup {kind}

\* run_system before SharedPriceBook(create=True): no storage, no child started
TableInit ==
    /\ shm = "none"
    /\ data_array = <<>>
    /\ lock = NoProc
    /\ tpc = [p \in Procs |-> IF p = "main" THEN "create" ELSE "off"]
    /\ handle = [p \in Procs |-> NoHandle]
    /\ uarg = [p \in Procs |-> NoArg]
    /\ ridx = [p \in Procs |-> 0]
    /\ cur = [p \in Procs |-> EmptyDict]
    /\ snap = [p \in Procs |-> [done |-> FALSE, state |-> EmptyDict, at |-> EmptyDict]]
    /\ committed = [s \in {U10(x) : x \in Range(SYMBOLS)} |-> 0]
    /\ snapAt = [p \in Procs |-> EmptyDict]
    /\ unlocked = {}

\* SharedPriceBook.__init__(create=True), up to SharedMemory(create=True)
CreateShm ==
    /\ tpc["main"] = "create"
    /\ UNCHANGED notTable
    /\ shm = "none"
    /\ shm' = "exists"
    /\ data_array' = ZeroRows(Len(sorted(SYMBOLS)))
    /\ handle' = [handle EXCEPT !["main"] =
                    [open |-> TRUE, symbols |-> sorted(SYMBOLS), is_creator |-> TRUE]]
    /\ tpc' = [tpc EXCEPT !["main"] = "init"]
    /\ UNCHANGED <<lock, uarg, ridx, cur, snap, committed, snapAt, unlocked>>

\* SharedPriceBook.__init__(create=True): data_array[:] = [(sym, 0.0) ...]
InitRows ==
    /\ tpc["main"] = "init"
    /\ UNCHANGED notTable
    /\ data_array' = [i \in 1..Len(handle["main"].symbols) |->
                        [symbol |-> U10(handle["main"].symbols[i]), price |-> 0]]
    /\ unlocked' = Access("main", "init")
    /\ tpc' = [tpc EXCEPT !["main"] = "idle"]
    /\ UNCHANGED <<shm, lock, handle, uarg, ridx, cur, snap, committed, snapAt>>

\* run_system when SharedPriceBook(create=True) raises: the name exists already
\* (FileExistsError, raised again by __init__), "Fatal error" is printed and
\* run_system returns before the list of processes is built
CreateFails ==
    /\ tpc["main"] = "create"
    /\ UNCHANGED notTable
    /\ shm = "exists"
    /\ tpc' = [tpc EXCEPT !["main"] = "exit"]
    /\ UNCHANGED <<shm, data_array, lock, handle, uarg, ridx, cur, snap,
                   committed, snapAt, unlocked>>

\* a variant that starts the roles without waiting for the table
StartChildEarly(p) ==
    /\ p # "main"
    /\ UNCHANGED notTable
    /\ mpc \in {"off", "start"}
    /\ tpc[p] = "off"
    /\ tpc' = [tpc EXCEPT ![p] = "attach"]
    /\ UNCHANGED <<shm, data_array, lock, handle, uarg, ridx, cur, snap,
                   committed, snapAt, unlocked>>

\* run_system: p.start() of an attaching role, after the table was created
StartChild(p) ==
    /\ p # "main"
    /\ UNCHANGED notTable
    /\ tpc["main"] = "idle"
    /\ mpc \in {"off", "start"}
    /\ tpc[p] = "off"
    /\ tpc' = [tpc EXCEPT ![p] = "attach"]
    /\ UNCHANGED <<shm, data_array, lock, handle, uarg, ridx, cur, snap,
                   committed, snapAt, unlocked>>

AfterAttachGoesOn(exists) == "idle"

\* run_orderbook / run_strategy after SharedPriceBook(create=False): on
\* FileNotFoundError the role prints "Fatal" and returns
AfterAttach(exists) == IF exists THEN "idle" ELSE "exit"

\* SharedPriceBook.__init__(create=False) in run_orderbook / run_strategy
Attach(p) ==
    /\ tpc[p] = "attach"
    /\ UNCHANGED notTable
    /\ handle' = IF shm = "exists"
                 THEN [handle EXCEPT ![p] =
                         [open |-> TRUE, symbols |-> sorted(SYMBOLS), is_creator |-> FALSE]]
                 ELSE handle
    /\ tpc' = [tpc EXCEPT ![p] = AfterAttach(shm = "exists")]
    /\ UNCHANGED <<shm, data_array, lock, uarg, ridx, cur, snap,
                   committed, snapAt, unlocked>>

\* the roles that call update(): the OrderBook, and the owner (as the unit test does)
Writers == {"main", "ob"}

\* the roles that call read_all(): the Strategy, and the owner (as the unit test does)
Readers == {"main", "st"}

\* update(symbol, price): the membership test, then the wait for the lock
UpdateCall(p, symbol, price) ==
    /\ p \in Writers
    /\ UNCHANGED notTable
    /\ tpc[p] = "idle"
    /\ IF symbol \notin Range(handle[p].symbols)
       THEN \* `return`: nothing is touched
            UNCHANGED <<tpc, uarg>>
       ELSE /\ uarg' = [uarg EXCEPT ![p] = [symbol |-> symbol, price |-> price]]
            /\ tpc' = [tpc EXCEPT ![p] = "upd_wait"]
    /\ UNCHANGED <<shm, data_array, lock, handle, ridx, cur, snap,
                   committed, snapAt, unlocked>>

\* update: `with self.lock:` entered
UpdateAcquire(p) ==
    /\ tpc[p] = "upd_wait"
    /\ UNCHANGED notTable
    /\ LockFree(p)
    /\ lock' = p
    /\ tpc' = [tpc EXCEPT ![p] = "upd_write"]
    /\ UNCHANGED <<shm, data_array, handle, uarg, ridx, cur, snap,
                   committed, snapAt, unlocked>>

\* update: data_array['price'][index] = price, and the lock released on leaving the block
UpdateWrite(p) ==
    /\ tpc[p] = "upd_write"
    /\ UNCHANGED notTable
    /\ LET index == symbol_to_index(handle[p], uarg[p].symbol)
           key == data_array[index].symbol
       IN /\ data_array' = RowsAfterUpdate(data_array, handle[p], uarg[p].symbol,
                                            uarg[p].price)
          /\ committed' = IF key \in DOMAIN committed
                          THEN [committed EXCEPT ![key] = uarg[p].price] ELSE committed
    /\ unlocked' = Access(p, "update")
    /\ lock' = IF lock = p THEN NoProc ELSE lock
    /\ uarg' = [uarg EXCEPT ![p] = NoArg]
    /\ tpc' = [tpc EXCEPT ![p] = "idle"]
    /\ UNCHANGED <<shm, handle, ridx, cur, snap, snapAt>>

\* read_all: `with self.lock:` entered, the comprehension starts at the first row
ReadAcquire(p) ==
    /\ p \in Readers
    /\ UNCHANGED notTable
    /\ tpc[p] = "idle"
    /\ LockFree(p)
    /\ lock' = p
    /\ ridx' = [ridx EXCEPT ![p] = 1]
    /\ cur' = [cur EXCEPT ![p] = EmptyDict]
    /\ snapAt' = [snapAt EXCEPT ![p] = committed]
    /\ tpc' = [tpc EXCEPT ![p] = "rd_copy"]
    /\ UNCHANGED <<shm, data_array, handle, uarg, snap, committed, unlocked>>

\* read_all: one row of {row['symbol']: row['price'] for row in self.data_array}
ReadRow(p) ==
    /\ tpc[p] = "rd_copy"
    /\ UNCHANGED notTable
    /\ ridx[p] <= Len(data_array)
    /\ cur' = [cur EXCEPT ![p] =
                 DictSet(@, data_array[ridx[p]].symbol, data_array[ridx[p]].price)]
    /\ ridx' = [ridx EXCEPT ![p] = @ + 1]
    /\ unlocked' = Access(p, "read")
    /\ UNCHANGED <<shm, data_array, lock, tpc, handle, uarg, snap,
                   committed, snapAt>>

\* read_all: the block is left, the lock released, current_state returned
ReadReturn(p) ==
    /\ tpc[p] = "rd_copy"
    /\ UNCHANGED notTable
    /\ ridx[p] > Len(data_array)
    /\ snap' = [snap EXCEPT ![p] = [done |-> TRUE, state |-> cur[p], at |-> snapAt[p]]]
    /\ lock' = IF lock = p THEN NoProc ELSE lock
    /\ tpc' = [tpc EXCEPT ![p] = "idle"]
    /\ UNCHANGED <<shm, data_array, handle, uarg, ridx, cur,
                   committed, snapAt, unlocked>>

\* the owner, the OrderBook and the Strategy on the shared table
NextTable ==
    \/ CreateShm
    \/ InitRows
    \/ \E p \in Procs : StartChild(p)
    \/ \E p \in Procs : Attach(p)
    \/ \E p \in Procs, symbol \in Range(SYMBOLS) \cup {Foreign}, price \in Prices :
          UpdateCall(p, symbol, price)
    \/ \E p \in Procs : UpdateAcquire(p)
    \/ \E p \in Procs : UpdateWrite(p)
    \/ \E p \in Procs : ReadAcquire(p)
    \/ \E p \in Procs : ReadRow(p)
    \/ \E p \in Procs : ReadReturn(p)

\* the table as the specifications that do not run it leave it
TableOff ==
    /\ shm = "none"
    /\ data_array = <<>>
    /\ lock = NoProc
    /\ tpc = [p \in Procs |-> "off"]
    /\ handle = [p \in Procs |-> NoHandle]
    /\ uarg = [p \in Procs |-> NoArg]
    /\ ridx = [p \in Procs |-> 0]
    /\ cur = [p \in Procs |-> EmptyDict]
    /\ snap = [p \in Procs |-> [done |-> FALSE, state |-> EmptyDict, at |-> EmptyDict]]
    /\ committed = [s \in {U10(x) : x \in Range(SYMBOLS)} |-> 0]
    /\ snapAt = [p \in Procs |-> EmptyDict]
    /\ unlocked = {}

(***************************************************************************)
(* Framing: receive_framed_message (OrderBook.py, OrderManager.py) and     *)
(* receive_framed_news_message (Strategy.py), and the connection loops     *)
(* that call them.                                                         *)
(***************************************************************************)
Roles == {"OB", "OM", "NEWS"}

\* the payload texts a peer writes.  "G" abbreviates a text the channel's schema
\* accepts (a price line, an order object, a sentiment number), "K" a text that is
\* valid JSON but not of the schema (an object without order_id, a JSON string),
\* "X" a text that is neither; a longer text is a concatenation of those.
Payloads == {<<>>, <<"G">>, <<"K">>, <<"G", "X">>}

Alphabet == {" ", ",", ".", "1", "2", "7", "A", "B", "Z", "G", "K", "X"}

\* str.encode('utf-8') of a text of the alphabet
Encode(text) == [i \in 1..Len(text) |-> Code(text[i])]

\* bytes.decode('utf-8')
Decode(bytes) == [i \in 1..Len(bytes) |-> CHOOSE c \in Alphabet : Code(c) = bytes[i]]

\* MESSAGE_DELIMITER = b'\n'
MESSAGE_DELIMITER == <<NL>>

\* s.find(sub, start): the lowest 0-based index >= start where sub occurs in s, or -1
Find(s, sub, start) ==
    LET hits == {i \in start..(Len(s) - Len(sub)) :
                    SubSeq(s, i + 1, i + Len(sub)) = sub}
    IN IF hits = {} THEN -1 ELSE CHOOSE i \in hits : \A j \in hits : i <= j

RECURSIVE ExtractSkipsEmpty(_)
\* a variant that passes over a delimiter with nothing before it
ExtractSkipsEmpty(buffer) ==
    LET delimiter_pos == Find(buffer, MESSAGE_DELIMITER, 0)
    IN IF delimiter_pos = 0
       THEN LET e == ExtractSkipsEmpty(Tail(buffer))
            IN [e EXCEPT !.skip = IF e.found THEN e.skip + 1 ELSE 0,
                         !.rest = IF e.found THEN e.rest ELSE buffer]
       ELSE IF delimiter_pos # -1
       THEN [found |-> TRUE, message |-> SubSeq(buffer, 1, delimiter_pos),
             skip |-> delimiter_pos + Len(MESSAGE_DELIMITER),
             rest |-> SubSeq(buffer, delimiter_pos + Len(MESSAGE_DELIMITER) + 1, Len(buffer))]
       ELSE [found |-> FALSE, message |-> <<>>, skip |-> 0, rest |-> buffer]

\* a variant that forgets the bytes read past the delimiter
ExtractDropsRest(buffer) ==
    LET delimiter_pos == Find(buffer, MESSAGE_DELIMITER, 0)
    IN IF delimiter_pos # -1
       THEN [found |-> TRUE, message |-> SubSeq(buffer, 1, delimiter_pos),
             skip |-> Len(buffer), rest |-> <<>>]
       ELSE [found |-> FALSE, message |-> <<>>, skip |-> 0, rest |-> buffer]

\* the head of the read loop: delimiter_pos = recv_buffer.find(MESSAGE_DELIMITER);
\* message = recv_buffer[:delimiter_pos]; recv_buffer = recv_buffer[delimiter_pos + 1:]
\* (skip: how many bytes leave the buffer)
Extract(buffer) ==
    LET delimiter_pos == Find(buffer, MESSAGE_DELIMITER, 0)
    IN IF delimiter_pos # -1
       THEN [found |-> TRUE, message |-> SubSeq(buffer, 1, delimiter_pos),
             skip |-> delimiter_pos + Len(MESSAGE_DELIMITER),
             rest |-> SubSeq(buffer, delimiter_pos + Len(MESSAGE_DELIMITER) + 1, Len(buffer))]
       ELSE [found |-> FALSE, message |-> <<>>, skip |-> 0, rest |-> buffer]

\* a variant that hands the undelimited rest to the caller when the peer has closed
OnZeroBytesReturnsPartial(buffer) ==
    IF buffer # <<>> THEN [raise |-> FALSE, message |-> buffer]
    ELSE [raise |-> TRUE, message |-> <<>>]

\* `if not chunk: raise ...`: the read fails, whatever the buffer holds
OnZeroBytes(buffer) == [raise |-> TRUE, message |-> <<>>]

\* a variant that keeps the buffer across connections
BufferOnConnectKept(buffer) == buffer

\* `recv_buffer = b''` ("Clear buffer on fresh connection") / `news_recv_buffer = b''`
BufferOnConnect(buffer) == <<>>

\* the roles that dial (socket.connect); the OrderManager listens (accept)
IsDialer(r) == r \in {"OB", "NEWS"}

Connected == {"read", "recv", "handle"}

\* a variant in which the stream-closed error ends the role
AfterStreamClosedExits(r) == "exit"

\* where the connection loop goes when the read function raised its stream-closed
\* error: OrderBook and Strategy close the socket and sleep 2 s before connecting
\* again, the OrderManager closes the socket and is back at accept()
AfterStreamClosed(r) == IF r = "OM" THEN "connect" ELSE "backoff"

\* json.loads and the field accesses of the handlers, on the abbreviated texts
Classify(text) ==
    IF text = <<"G">> THEN "ok"
    ELSE IF text = <<"K">> THEN "not_schema"
    ELSE "invalid"

NoBurst == [active |-> FALSE, msgs |-> <<>>, base |-> 0, recvAt |-> 0]

RECURSIVE Split(_)
\* the payloads of a byte string that ends with the delimiter
Split(bytes) ==
    LET pos == Find(bytes, <<NL>>, 0)
    IN IF pos = -1 THEN <<>>
       ELSE <<Decode(SubSeq(bytes, 1, pos))>> \o Split(SubSeq(bytes, pos + 2, Len(bytes)))

RECURSIVE Flatten(_)
\* the bytes of a list of messages, each followed by the delimiter
Flatten(msgs) ==
    IF msgs = <<>> THEN <<>>
    ELSE Encode(Head(msgs)) \o MESSAGE_DELIMITER \o Flatten(Tail(msgs))

Min(a, b) == IF a < b THEN a ELSE b

FrameInit ==
    /\ role \in Roles
    /\ conn = 0
    /\ cpc = "connect"
    /\ peer = "none"
    /\ wire = <<>>
    /\ sent = <<>>
    /\ recv_buffer = <<>>
    /\ raw = <<>>
    /\ openSocks = {}
    /\ received = <<>>
    /\ returned = <<>>
    /\ bufFrom = <<>>
    /\ rawFrom = <<>>
    /\ recvCount = 0
    /\ burst = NoBurst
    /\ zeroRead = [seen |-> FALSE, nret |-> 0]
    /\ stale = FALSE
    /\ leftBy = "none"

\* the consumer as the specifications that do not run it leave it
FrameOff ==
    /\ role = "none"
    /\ conn = 0
    /\ cpc = "off"
    /\ peer = "none"
    /\ wire = <<>>
    /\ sent = <<>>
    /\ recv_buffer = <<>>
    /\ raw = <<>>
    /\ openSocks = {}
    /\ received = <<>>
    /\ returned = <<>>
    /\ bufFrom = <<>>
    /\ rawFrom = <<>>
    /\ recvCount = 0
    /\ burst = NoBurst
    /\ zeroRead = [seen |-> FALSE, nret |-> 0]
    /\ stale = FALSE
    /\ leftBy = "none"

\* client_socket.connect(...) succeeded / server_socket.accept() returned: the name
\* client_socket now holds the new socket (the previous object, if still open, is
\* released), and the buffer is cleared before the read loop starts
Establish ==
    /\ cpc = "connect"
    /\ UNCHANGED notFrame
    /\ conn < MaxConns
    /\ conn' = conn + 1
    /\ openSocks' = {conn + 1}
    /\ peer' = "open"
    /\ wire' = <<>>
    /\ sent' = <<>>
    /\ stale' = (recv_buffer # <<>>)
    /\ recv_buffer' = BufferOnConnect(recv_buffer)
    /\ bufFrom' = BufferOnConnect(bufFrom)
    /\ raw' = <<>>
    /\ rawFrom' = <<>>
    /\ received' = <<>>
    /\ returned' = <<>>
    /\ recvCount' = 0
    /\ burst' = NoBurst
    /\ zeroRead' = [seen |-> FALSE, nret |-> 0]
    /\ leftBy' = "none"
    /\ cpc' = "read"
    /\ UNCHANGED role

\* connect() raised ConnectionRefusedError: sleep, then try again
Refused ==
    /\ cpc = "connect"
    /\ UNCHANGED notFrame
    /\ IsDialer(role)
    /\ cpc' = "backoff"
    /\ UNCHANGED <<role, conn, peer, wire, sent, recv_buffer, raw, openSocks, received,
                   returned, bufFrom, rawFrom, recvCount, burst, zeroRead, stale, leftBy>>

\* time.sleep(...) of an except clause is over: back to the top of the outer loop
BackoffOver ==
    /\ cpc = "backoff"
    /\ UNCHANGED notFrame
    /\ cpc' = "connect"
    /\ UNCHANGED <<role, conn, peer, wire, sent, recv_buffer, raw, openSocks, received,
                   returned, bufFrom, rawFrom, recvCount, burst, zeroRead, stale, leftBy>>

\* the peer's sendall(payload + MESSAGE_DELIMITER)
PeerSend(payload) ==
    /\ cpc \in Connected
    /\ UNCHANGED notFrame
    /\ peer = "open"
    /\ Len(sent) < MaxMsgs
    /\ wire' = wire \o Encode(payload) \o MESSAGE_DELIMITER
    /\ sent' = Append(sent, payload)
    /\ UNCHANGED <<role, conn, cpc, peer, recv_buffer, raw, openSocks, received,
                   returned, bufFrom, rawFrom, recvCount, burst, zeroRead, stale, leftBy>>

\* the peer process is terminated inside sendall: n bytes of the payload got out,
\* the delimiter did not, and the connection is closed
PeerKilledInSend(payload, n) ==
    /\ cpc \in Connected
    /\ UNCHANGED notFrame
    /\ peer = "open"
    /\ Len(sent) < MaxMsgs
    /\ n \in 1..Len(payload)
    /\ wire' = wire \o SubSeq(Encode(payload), 1, n)
    /\ peer' = "closed"
    /\ UNCHANGED <<role, conn, cpc, sent, recv_buffer, raw, openSocks, received,
                   returned, bufFrom, rawFrom, recvCount, burst, zeroRead, stale, leftBy>>

\* the peer closes its socket (or exits): an orderly end of the stream
PeerClose ==
    /\ cpc \in Connected
    /\ UNCHANGED notFrame
    /\ peer = "open"
    /\ peer' = "closed"
    /\ UNCHANGED <<role, conn, cpc, wire, sent, recv_buffer, raw, openSocks, received,
                   returned, bufFrom, rawFrom, recvCount, burst, zeroRead, stale, leftBy>>

\* the connection is reset: what was in flight is lost
PeerReset ==
    /\ cpc \in Connected
    /\ UNCHANGED notFrame
    /\ peer \in {"open", "closed"}
    /\ peer' = "reset"
    /\ wire' = <<>>
    /\ UNCHANGED <<role, conn, cpc, sent, recv_buffer, raw, openSocks, received,
                   returned, bufFrom, rawFrom, recvCount, burst, zeroRead, stale, leftBy>>

\* `return message.decode('utf-8')` with the buffer cut: e is Extract of buffer,
\* tags the connection of each byte of buffer
Return(buffer, tags, e) ==
    /\ raw' = Decode(e.message)
    /\ rawFrom' = SubSeq(tags, 1, Len(e.message))
    /\ recv_buffer' = e.rest
    /\ bufFrom' = SubSeq(tags, e.skip + 1, Len(tags))
    /\ returned' = Append(returned, Decode(e.message))
    /\ cpc' = "handle"

\* the read function is called: the buffer is searched first; with no delimiter in
\* it the function calls sock.recv(4096) and blocks
ReadCall ==
    /\ cpc = "read"
    /\ UNCHANGED notFrame
    /\ LET e == Extract(recv_buffer)
       IN IF e.found
          THEN /\ Return(recv_buffer, bufFrom, e)
               /\ UNCHANGED <<recvCount, burst>>
          ELSE /\ cpc' = "recv"
               /\ recvCount' = recvCount + 1
               /\ burst' = IF burst.active /\ Len(returned) - burst.base = Len(burst.msgs)
                           THEN NoBurst ELSE burst
               /\ UNCHANGED <<raw, rawFrom, recv_buffer, bufFrom, returned>>
    /\ UNCHANGED <<role, conn, peer, wire, sent, openSocks, received, zeroRead, stale, leftBy>>

\* sock.recv(4096) returns the next n bytes; recv_buffer += chunk; the loop searches
\* the buffer again and either returns a message or calls recv once more
RecvChunk(n) ==
    /\ cpc = "recv"
    /\ UNCHANGED notFrame
    /\ n \in 1..Min(Len(wire), RecvMax)
    /\ LET chunk == SubSeq(wire, 1, n)
           buffer == recv_buffer \o chunk
           tags == bufFrom \o [i \in 1..n |-> conn]
           e == Extract(buffer)
       IN /\ wire' = SubSeq(wire, n + 1, Len(wire))
          /\ received' = received \o chunk
          /\ burst' = IF recv_buffer = <<>> /\ chunk[n] = NL
                      THEN [active |-> TRUE, msgs |-> Split(chunk),
                            base |-> Len(returned), recvAt |-> recvCount]
                      ELSE NoBurst
          /\ IF e.found
             THEN /\ Return(buffer, tags, e)
                  /\ UNCHANGED recvCount
             ELSE /\ recv_buffer' = buffer
                  /\ bufFrom' = tags
                  /\ recvCount' = recvCount + 1
                  /\ UNCHANGED <<raw, rawFrom, returned, cpc>>
    /\ UNCHANGED <<role, conn, peer, sent, openSocks, zeroRead, stale, leftBy>>

\* sock.recv returns b'' (the peer closed and everything it wrote was read): the
\* read function raises SocketStreamClosed (OrderBook, Strategy) or
\* ConnectionResetError (OrderManager); the loop's except clause closes the socket
RecvZero ==
    /\ cpc = "recv"
    /\ UNCHANGED notFrame
    /\ wire = <<>>
    /\ peer = "closed"
    /\ zeroRead' = [seen |-> TRUE, nret |-> Len(returned)]
    /\ LET z == OnZeroBytes(recv_buffer)
       IN IF z.raise
          THEN /\ cpc' = AfterStreamClosed(role)
               /\ openSocks' = openSocks \ {conn}
               /\ leftBy' = "closed"
               /\ UNCHANGED <<raw, rawFrom, recv_buffer, bufFrom, returned>>
          ELSE /\ raw' = Decode(z.message)
               /\ rawFrom' = bufFrom
               /\ recv_buffer' = <<>>
               /\ bufFrom' = <<>>
               /\ returned' = Append(returned, Decode(z.message))
               /\ cpc' = "handle"
               /\ UNCHANGED <<openSocks, leftBy>>
    /\ UNCHANGED <<role, conn, peer, wire, sent, received, recvCount, burst, stale>>

\* sock.recv raises ConnectionResetError: OrderBook and Strategy turn it into
\* SocketStreamClosed, the OrderManager's except ConnectionResetError takes it
RecvError ==
    /\ cpc = "recv"
    /\ UNCHANGED notFrame
    /\ peer = "reset"
    /\ cpc' = AfterStreamClosed(role)
    /\ openSocks' = openSocks \ {conn}
    /\ leftBy' = "error"
    /\ UNCHANGED <<role, conn, peer, wire, sent, recv_buffer, raw, received,
                   returned, bufFrom, rawFrom, recvCount, burst, zeroRead, stale>>

\* run_orderbook, the body of the inner loop after the read: an empty message is
\* skipped (`continue`); the parsing and the updates run inside try/except ValueError/
\* except Exception, so whatever the text is, the loop goes on to the next read
HandleOB ==
    /\ role = "OB"
    /\ UNCHANGED notFrame
    /\ cpc = "handle"
    /\ cpc' = "read"
    /\ UNCHANGED <<role, conn, peer, wire, sent, recv_buffer, raw, openSocks, received,
                   returned, bufFrom, rawFrom, recvCount, burst, zeroRead, stale, leftBy>>

\* run_ordermanager, the body of the inner loop after the read: json.loads(raw_order)
\* and the print of the order's fields.  JSONDecodeError is caught by the outer
\* try (the loop is back at accept(), the socket is left as it is); a missing field
\* (KeyError) by `except Exception`, which sleeps 1 s first
HandleOM ==
    /\ role = "OM"
    /\ UNCHANGED notFrame
    /\ cpc = "handle"
    /\ LET class == Classify(raw)
       IN /\ cpc' = IF class = "ok" THEN "read"
                    ELSE IF class = "invalid" THEN "connect"
                    ELSE "backoff"
          /\ leftBy' = IF class = "ok" THEN leftBy ELSE "parse"
    /\ UNCHANGED <<role, conn, peer, wire, sent, recv_buffer, raw, openSocks, received,
                   returned, bufFrom, rawFrom, recvCount, burst, zeroRead, stale>>

\* run_strategy, the body of the inner loop after the read: json.loads(raw_news),
\* read_all, the signal loop.  JSONDecodeError is not a SocketStreamClosed, so it
\* reaches the outer `except Exception` (news_socket.close(), sleep 2 s); a JSON
\* value that is no number raises TypeError at `sentiment > BULLISH_THRESHOLD`, which
\* is evaluated only when some price of the snapshot is not 0.0 (priced)
HandleNEWS(priced) ==
    /\ role = "NEWS"
    /\ UNCHANGED notFrame
    /\ cpc = "handle"
    /\ LET class == Classify(raw)
           fails == class = "invalid" \/ (class = "not_schema" /\ priced)
       IN /\ cpc' = IF fails THEN "backoff" ELSE "read"
          /\ leftBy' = IF fails THEN "parse" ELSE leftBy
          /\ openSocks' = IF fails THEN openSocks \ {conn} ELSE openSocks
    /\ UNCHANGED <<role, conn, peer, wire, sent, recv_buffer, raw, received,
                   returned, bufFrom, rawFrom, recvCount, burst, zeroRead, stale>>

\* one consumer (any of the three) and the peer of its connection
NextFrame ==
    \/ Establish
    \/ Refused
    \/ BackoffOver
    \/ \E payload \in Payloads : PeerSend(payload)
    \/ \E payload \in Payloads : \E n \in 1..Len(payload) : PeerKilledInSend(payload, n)
    \/ PeerClose
    \/ PeerReset
    \/ ReadCall
    \/ \E n \in 1..Len(wire) : RecvChunk(n)
    \/ RecvZero
    \/ RecvError
    \/ HandleOB
    \/ HandleOM
    \/ \E priced \in BOOLEAN : HandleNEWS(priced)

(***************************************************************************)
(* The price consumer: run_orderbook's parsing of one price message and    *)
(* the updates it makes (OrderBook.py), fed with messages in the format of *)
(* the price_streamer (gateway.py).                                        *)
(***************************************************************************)
sA == <<"A">>

sB == <<"B">>

s7 == <<"7">>

sAB == <<"A", "B">>

\* the symbol lists the system may be started with, in the order they are written
Universes == {<<sB, sA>>, <<sA, s7>>, <<sA, sAB>>}

\* price texts a sender may write: plain decimal numbers ...
Decimals == {<<"1">>, <<"2", ".", "7">>, <<"7", ".", "2", "1">>}

\* ... and texts that are no number
NotNumbers == {<<".">>, <<>>}

Digits == {"1", "2", "7"}

DigitVal(c) == CASE c = "1" -> 1 [] c = "2" -> 2 [] c = "7" -> 7

RECURSIVE DigitsVal(_)
\* the number a run of digits writes
DigitsVal(ds) ==
    IF ds = <<>> THEN 0
    ELSE 10 * DigitsVal(SubSeq(ds, 1, Len(ds) - 1)) + DigitVal(ds[Len(ds)])

RECURSIVE Strip(_)
\* str.strip(): leading and trailing blanks removed
Strip(t) ==
    IF t = <<>> THEN t
    ELSE IF Head(t) = " " THEN Strip(Tail(t))
    ELSE IF t[Len(t)] = " " THEN Strip(SubSeq(t, 1, Len(t) - 1))
    ELSE t

\* float(t) for a text of the model's alphabet: digits with at most one point and
\* at least one digit give a number, anything else raises ValueError.  The value
\* is in hundredths (the texts of the model have at most two decimals).
Float(t) ==
    LET dots == {i \in DOMAIN t : t[i] = "."}
        ok == /\ \A i \in DOMAIN t : t[i] \in Digits \cup {"."}
              /\ Cardinality(dots) <= 1
              /\ \E i \in DOMAIN t : t[i] \in Digits
        dot == IF dots = {} THEN Len(t) + 1 ELSE CHOOSE i \in dots : TRUE
        whole == SubSeq(t, 1, dot - 1)
        frac == SubSeq(t, dot + 1, Len(t))
        cents == IF Len(frac) = 0 THEN 0
                 ELSE IF Len(frac) = 1 THEN 10 * DigitVal(frac[1])
                 ELSE 10 * DigitVal(frac[1]) + DigitVal(frac[2])
    IN IF ok THEN [ok |-> TRUE, value |-> 100 * DigitsVal(whole) + cents]
       ELSE [ok |-> FALSE, value |-> 0]

\* f"{symbol},{price:.2f}" of price_streamer, with the price text as given
Field(f) == f.symbol \o <<",">> \o f.text

RECURSIVE Concat(_)
\* message += ... over the fields: no separator between two pairs
Concat(fs) == IF fs = <<>> THEN <<>> ELSE Field(Head(fs)) \o Concat(Tail(fs))

RECURSIVE SymLists(_, _)
\* the lists of at most n distinct symbols of S, in any order
SymLists(S, n) ==
    IF n = 0 THEN {<<>>}
    ELSE LET shorter == SymLists(S, n - 1)
         IN shorter \cup UNION {{Append(l, s) : s \in S \ Range(l)} :
                                   l \in {x \in shorter : Len(x) = n - 1}}

\* the messages a sender may write for a consumer tracking the list syms: up to
\* MaxFields pairs, of tracked symbols and of the foreign one, with any price text
Messages(syms) ==
    UNION {{[i \in DOMAIN l |-> [symbol |-> l[i], text |-> t[i]]] :
                t \in [DOMAIN l -> Decimals \cup NotNumbers]} :
              l \in SymLists(Range(syms) \cup {Foreign}, MaxFields)}

\* every message of the model
AllMessages == UNION {Messages(u) : u \in Universes}

\* raw_message[start_index:end_index].strip() for one symbol that occurs in the
\* message: start_index = raw_message.find(symbol) + len(symbol) + 1; end_index
\* is the lowest position, from start_index on, where another symbol of the list
\* occurs (len(raw_message) when none does)
price_str(message, syms, symbol) ==
    LET start_index == Find(message, symbol, 0) + Len(symbol) + 1
        ends == {Find(message, syms[k], start_index) :
                    k \in {j \in DOMAIN syms :
                              /\ syms[j] # symbol
                              /\ Find(message, syms[j], start_index) # -1}}
        end_index == IF ends = {} THEN Len(message)
                     ELSE Min(Len(message), CHOOSE e \in ends : \A x \in ends : e <= x)
    IN Strip(SubSeq(message, start_index + 1, end_index))

NoCalls == <<>>

\* the table created by the owner for the symbol list and attached by the
\* OrderBook, which is about to read its first message
PriceInit ==
    /\ symbols \in Universes
    /\ raw_message = <<>>
    /\ ppc = "read"
    /\ pidx = 0
    /\ parsed_ticks = EmptyDict
    /\ perr = FALSE
    /\ fields = <<>>
    /\ before = <<>>
    /\ calls = NoCalls
    /\ shm = "exists"
    /\ data_array = [i \in 1..Len(symbols) |->
                        [symbol |-> U10(sorted(symbols)[i]), price |-> 0]]
    /\ lock = NoProc
    /\ tpc = [p \in Procs |-> IF p = "st" THEN "off" ELSE "idle"]
    /\ handle = [p \in Procs |->
                    IF p = "st" THEN NoHandle
                    ELSE [open |-> TRUE, symbols |-> sorted(symbols),
                          is_creator |-> (p = "main")]]
    /\ uarg = [p \in Procs |-> NoArg]
    /\ ridx = [p \in Procs |-> 0]
    /\ cur = [p \in Procs |-> EmptyDict]
    /\ snap = [p \in Procs |-> [done |-> FALSE, state |-> EmptyDict, at |-> EmptyDict]]
    /\ committed = [s \in {U10(x) : x \in Range(SYMBOLS)} |-> 0]
    /\ snapAt = [p \in Procs |-> EmptyDict]
    /\ unlocked = {}

\* the parser as the specifications that do not run it leave it
PriceOff ==
    /\ symbols = <<>>
    /\ raw_message = <<>>
    /\ ppc = "off"
    /\ pidx = 0
    /\ parsed_ticks = EmptyDict
    /\ perr = FALSE
    /\ fields = <<>>
    /\ before = <<>>
    /\ calls = NoCalls

\* raw_message = receive_framed_message(sock): the next message, written by the
\* sender from the fields fs (pairs of tracked symbols and of the foreign one);
\* an empty message is skipped (`continue`)
ReceivePrice(fs) ==
    /\ ppc = "read"
    /\ \A k \in DOMAIN fs : fs[k].symbol \in Range(symbols) \cup {Foreign}
    /\ UNCHANGED notPrice
    /\ IF Concat(fs) = <<>>
       THEN UNCHANGED <<raw_message, fields, before, ppc, pidx>>
       ELSE /\ raw_message' = Concat(fs)
            /\ fields' = fs
            /\ before' = data_array
            /\ ppc' = "parse"
            /\ pidx' = 1
    /\ UNCHANGED <<symbols, data_array, parsed_ticks, perr, calls>>

RECURSIVE RowsAfterAll(_, _, _, _)
\* the rows after update(symbol, price) for the symbols of syms from the k-th on
RowsAfterAll(rows, h, message, k) ==
    IF k > Len(h.given) THEN rows
    ELSE RowsAfterAll(RowsAfterUpdate(rows, h.book, h.given[k],
                                      Float(price_str(message, h.given, h.given[k])).value),
                      h, message, k + 1)

\* a variant that applies the pairs of a message in one critical section
ParseSymbolBatched ==
    /\ ppc = "parse"
    /\ UNCHANGED notPrice
    /\ pidx = 1
    /\ LockFree("ob")
    /\ \A k \in DOMAIN symbols :
          /\ Find(raw_message, symbols[k], 0) # -1
          /\ Float(price_str(raw_message, symbols, symbols[k])).ok
    /\ data_array' = RowsAfterAll(data_array, [book |-> handle["ob"], given |-> symbols],
                                  raw_message, 1)
    /\ calls' = calls \o [k \in DOMAIN symbols |->
                            [symbol |-> symbols[k],
                             price |-> Float(price_str(raw_message, symbols, symbols[k])).value]]
    /\ parsed_ticks' = [s \in Range(symbols) |->
                           Float(price_str(raw_message, symbols, s)).value]
    /\ pidx' = Len(symbols) + 1
    /\ UNCHANGED <<ppc, perr>>
    /\ UNCHANGED <<symbols, raw_message, fields, before>>

\* one pass of `for symbol in symbols:` its price text cut out of the message,
\* float() of it, shm_book.update(symbol, price); a ValueError leaves the loop
\* for the handler, which logs it and goes back to reading
ParseSymbol ==
    /\ ppc = "parse"
    /\ UNCHANGED notPrice
    /\ pidx <= Len(symbols)
    /\ LockFree("ob")
    /\ LET symbol == symbols[pidx]
           found == Find(raw_message, symbol, 0) # -1
           price == Float(price_str(raw_message, symbols, symbol))
       IN IF ~found
          THEN /\ pidx' = pidx + 1
               /\ UNCHANGED <<ppc, parsed_ticks, perr, calls, data_array>>
          ELSE IF price.ok
          THEN /\ data_array' = RowsAfterUpdate(data_array, handle["ob"], symbol, price.value)
               /\ calls' = Append(calls, [symbol |-> symbol, price |-> price.value])
               /\ parsed_ticks' = DictSet(parsed_ticks, symbol, price.value)
               /\ pidx' = pidx + 1
               /\ UNCHANGED <<ppc, perr>>
          ELSE /\ perr' = TRUE
               /\ ppc' = "handled"
               /\ pidx' = 0
               /\ UNCHANGED <<parsed_ticks, calls, data_array>>
    /\ UNCHANGED <<symbols, raw_message, fields, before>>

\* the loop over the symbols is through without an exception
ParseEnd ==
    /\ ppc = "parse"
    /\ UNCHANGED notPrice
    /\ pidx > Len(symbols)
    /\ ppc' = "handled"
    /\ pidx' = 0
    /\ UNCHANGED <<symbols, raw_message, parsed_ticks, perr, fields, before, calls,
                   data_array>>

\* the next pass of `while True:` what the last pass left in raw_message and
\* parsed_ticks is not read any more
ReadAgain ==
    /\ ppc = "handled"
    /\ UNCHANGED notPrice
    /\ ppc' = "read"
    /\ raw_message' = <<>>
    /\ parsed_ticks' = EmptyDict
    /\ perr' = FALSE
    /\ fields' = <<>>
    /\ before' = <<>>
    /\ calls' = NoCalls
    /\ UNCHANGED <<symbols, pidx, data_array>>

\* the OrderBook handling price messages one after the other
NextPrice ==
    \/ \E fs \in AllMessages : ReceivePrice(fs)
    \/ ParseSymbol
    \/ ParseEnd
    \/ ReadAgain

(***************************************************************************)
(* The order connection: run_strategy's om_socket and _send_order          *)
(* (Strategy.py) and the OrderManager it connects to (OrderManager.py).    *)
(***************************************************************************)
Sides == {"BUY", "SELL"}

\* state.position[symbol] after an order of the side
PositionAfter(side) == IF side = "BUY" THEN "LONG" ELSE "SHORT"

\* run_strategy up to its main loop: om_socket created, om_connected = False,
\* StrategyState(symbols); the OrderManager process is not listening yet
StratInit ==
    /\ spc = "top"
    /\ om_connected = FALSE
    /\ om_socket = "fresh"
    /\ om_state = "down"
    /\ om_wire = <<>>
    /\ order_counter = 1
    /\ position = "NONE"
    /\ delivered = <<>>
    /\ failed = {}
    /\ retry_ok \in BOOLEAN

\* the order connection as the specifications that do not run it leave it
StratOff ==
    /\ spc = "off"
    /\ om_connected = FALSE
    /\ om_socket = "fresh"
    /\ om_state = "down"
    /\ om_wire = <<>>
    /\ order_counter = 1
    /\ position = "NONE"
    /\ delivered = <<>>
    /\ failed = {}
    /\ retry_ok = FALSE

\* `if not om_connected:` om_socket.connect(...).  It succeeds when the
\* OrderManager listens and the socket object can still connect: a fresh one can,
\* one whose earlier connect() failed can on some platforms only (retry_ok).
\* Otherwise the exception is caught, the Strategy sleeps 1s and `continue`s.
ConnectOM ==
    /\ spc = "top"
    /\ UNCHANGED notStrat
    /\ ~om_connected
    /\ IF om_state # "down" /\ (om_socket = "fresh" \/ (om_socket = "failed" /\ retry_ok))
       THEN /\ om_socket' = "connected"
            /\ om_connected' = TRUE
            /\ spc' = "news_connect"
       ELSE /\ om_socket' = "failed"
            /\ om_connected' = om_connected
            /\ spc' = "om_sleep"
    /\ UNCHANGED <<om_state, om_wire, order_counter, position, delivered, failed, retry_ok>>

\* `if not om_connected:` is false: the connect block is skipped
SkipConnectOM ==
    /\ spc = "top"
    /\ UNCHANGED notStrat
    /\ om_connected
    /\ spc' = "news_connect"
    /\ UNCHANGED <<om_connected, om_socket, om_state, om_wire, order_counter, position,
                   delivered, failed, retry_ok>>

\* time.sleep(1); continue
OMSleepOver ==
    /\ spc = "om_sleep"
    /\ UNCHANGED notStrat
    /\ spc' = "top"
    /\ UNCHANGED <<om_connected, om_socket, om_state, om_wire, order_counter, position,
                   delivered, failed, retry_ok>>

\* news_socket.connect(...): the execution loop is entered, or the connection is
\* refused, the news socket closed and the Strategy sleeps 2s
ConnectNews(ok) ==
    /\ spc = "news_connect"
    /\ UNCHANGED notStrat
    /\ spc' = IF ok THEN "run" ELSE "news_sleep"
    /\ UNCHANGED <<om_connected, om_socket, om_state, om_wire, order_counter, position,
                   delivered, failed, retry_ok>>

\* the news stream ends or any exception leaves the execution loop: one of the
\* three handlers closes news_socket and sleeps 2s
NewsLost ==
    /\ spc = "run"
    /\ UNCHANGED notStrat
    /\ spc' = "news_sleep"
    /\ UNCHANGED <<om_connected, om_socket, om_state, om_wire, order_counter, position,
                   delivered, failed, retry_ok>>

\* time.sleep(2) is over: the next pass of the main loop
NewsSleepOver ==
    /\ spc = "news_sleep"
    /\ UNCHANGED notStrat
    /\ spc' = "top"
    /\ UNCHANGED <<om_connected, om_socket, om_state, om_wire, order_counter, position,
                   delivered, failed, retry_ok>>

\* a variant that keeps the order id and the position when the send raised
SendOrderUndoneOnFailure(side, raised) ==
    /\ spc = "run"
    /\ UNCHANGED notStrat
    /\ order_counter <= MaxOrders
    /\ position # PositionAfter(side)
    /\ IF om_socket = "connected"
       THEN /\ ~raised
            /\ om_wire' = Append(om_wire, order_counter)
            /\ failed' = failed
       ELSE /\ om_wire' = om_wire
            /\ failed' = IF raised THEN failed \cup {order_counter} ELSE failed
    /\ position' = IF om_socket # "connected" /\ raised THEN position ELSE PositionAfter(side)
    /\ order_counter' = IF om_socket # "connected" /\ raised
                        THEN order_counter ELSE order_counter + 1
    /\ UNCHANGED <<spc, om_connected, om_socket, om_state, delivered, retry_ok>>

\* a BUY or SELL signal against the position: _send_order(om_socket, order), then
\* state.position and state.order_counter are set whatever the send did.
\* sendall on a connection whose peer is gone either raises (raised), which
\* _send_order catches and logs, or is taken by the kernel and discarded.
SendOrder(side, raised) ==
    /\ spc = "run"
    /\ UNCHANGED notStrat
    /\ order_counter <= MaxOrders
    /\ position # PositionAfter(side)
    /\ IF om_socket = "connected"
       THEN /\ ~raised
            /\ om_wire' = Append(om_wire, order_counter)
            /\ failed' = failed
       ELSE /\ om_wire' = om_wire
            /\ failed' = IF raised THEN failed \cup {order_counter} ELSE failed
    /\ position' = PositionAfter(side)
    /\ order_counter' = order_counter + 1
    /\ UNCHANGED <<spc, om_connected, om_socket, om_state, delivered, retry_ok>>

\* run_ordermanager: bind and listen
OMStart ==
    /\ om_state = "down"
    /\ UNCHANGED notStrat
    /\ om_state' = "listening"
    /\ UNCHANGED <<spc, om_connected, om_socket, om_wire, order_counter, position,
                   delivered, failed, retry_ok>>

\* client_socket, addr = server_socket.accept(): the Strategy's connection is taken
OMAccept ==
    /\ om_state = "listening"
    /\ UNCHANGED notStrat
    /\ om_socket = "connected"
    /\ om_state' = "serving"
    /\ UNCHANGED <<spc, om_connected, om_socket, om_wire, order_counter, position,
                   delivered, failed, retry_ok>>

\* one order read and printed by the OrderManager
OMReceive ==
    /\ om_state = "serving"
    /\ UNCHANGED notStrat
    /\ om_wire # <<>>
    /\ delivered' = Append(delivered, Head(om_wire))
    /\ om_wire' = Tail(om_wire)
    /\ UNCHANGED <<spc, om_connected, om_socket, om_state, order_counter, position,
                   failed, retry_ok>>

\* the OrderManager process ends (it is restarted by OMStart): its sockets are
\* closed by the system, what it had not read is gone
OMStop ==
    /\ om_state # "down"
    /\ UNCHANGED notStrat
    /\ om_state' = "down"
    /\ om_socket' = IF om_socket = "connected" THEN "broken" ELSE om_socket
    /\ om_wire' = <<>>
    /\ UNCHANGED <<spc, om_connected, order_counter, position, delivered, failed, retry_ok>>

\* the Strategy and the OrderManager
NextStrat ==
    \/ ConnectOM
    \/ SkipConnectOM
    \/ OMSleepOver
    \/ \E ok \in BOOLEAN : ConnectNews(ok)
    \/ NewsLost
    \/ NewsSleepOver
    \/ \E side \in Sides, raised \in BOOLEAN : SendOrder(side, raised)
    \/ OMStart
    \/ OMAccept
    \/ OMReceive
    \/ OMStop

(***************************************************************************)
(* The producers: price_streamer and news_streamer (gateway.py), each a    *)
(* listening server that streams to the one client it accepted.            *)
(***************************************************************************)
Streams == {"PRICE", "NEWS"}

\* the roles that listen and accept: the two streamers, and the OrderManager, whose
\* loop has the same shape with a read in the place of the write
Listeners == Streams \cup {"OM"}

\* the dialers that may connect to the port during a run
Dialers == 1..MaxConns

\* the role is past bind/listen and enters `while True:` at accept()
ProdInit ==
    /\ gkind \in Listeners
    /\ gpc = "accept"
    /\ gclient = "none"
    /\ gconn = 0
    /\ gticks = 0
    /\ gopen = {}
    /\ gleft = "none"
    /\ gdialed = 0
    /\ ggot = [d \in Dialers |-> 0]

\* the producers as the specifications that do not run them leave them
ProdOff ==
    /\ gkind = "none"
    /\ gpc = "off"
    /\ gclient = "none"
    /\ gconn = 0
    /\ gticks = 0
    /\ gopen = {}
    /\ gleft = "none"
    /\ gdialed = 0
    /\ ggot = [d \in Dialers |-> 0]

\* a dialer connects to the listening port: the system completes the connection
\* and keeps it in the backlog of listen() until the role calls accept()
GDial ==
    /\ gpc \in {"accept", "stream", "sleep"}
    /\ UNCHANGED notProd
    /\ gdialed < MaxConns
    /\ gdialed' = gdialed + 1
    /\ UNCHANGED <<gkind, gpc, gclient, gconn, gticks, gopen, gleft, ggot>>

\* a variant that takes the next dialer while the current one is being served
GAcceptWhileServing ==
    /\ gpc \in {"accept", "stream"}
    /\ UNCHANGED notProd
    /\ gconn < gdialed
    /\ gconn' = gconn + 1
    /\ gopen' = gopen \cup {gconn + 1}
    /\ gclient' = "up"
    /\ gticks' = 0
    /\ gleft' = "none"
    /\ gpc' = "stream"
    /\ UNCHANGED <<gkind, gdialed, ggot>>

\* client_socket, addr = server_socket.accept() returns the oldest waiting dialer;
\* the name client_socket now holds the new socket, and the previous socket object,
\* if an except clause left it open, is released
GAccept ==
    /\ gpc = "accept"
    /\ UNCHANGED notProd
    /\ gconn < gdialed
    /\ gconn' = gconn + 1
    /\ gopen' = {gconn + 1}
    /\ gclient' = "up"
    /\ gticks' = 0
    /\ gleft' = "none"
    /\ gpc' = "stream"
    /\ UNCHANGED <<gkind, gdialed, ggot>>

\* one pass of the inner loop.  A streamer builds its message, sendall takes it, and
\* it sleeps its tick; a first write after the client went away can still be taken
\* by the system.  The OrderManager reads one order from client_socket and prints it.
GSend ==
    /\ gpc = "stream"
    /\ UNCHANGED notProd
    /\ gticks < MaxMsgs
    /\ gticks' = gticks + 1
    /\ ggot' = [ggot EXCEPT ![gconn] = @ + 1]
    /\ UNCHANGED <<gkind, gpc, gclient, gconn, gopen, gleft, gdialed>>

\* the consumer closes its socket or its process ends
GClientGone ==
    /\ gpc = "stream"
    /\ UNCHANGED notProd
    /\ gclient = "up"
    /\ gclient' = "gone"
    /\ UNCHANGED <<gkind, gpc, gconn, gticks, gopen, gleft, gdialed, ggot>>

\* where the role goes when sendall (or, in the OrderManager, the read) raised:
\* `except ConnectionResetError` closes client_socket and is back at accept(); any
\* other error (BrokenPipeError) is logged by `except Exception`, which sleeps 1 s
AfterSendError(err) == IF err = "reset" THEN "accept" ELSE "sleep"

\* sendall raises on a connection whose client is gone: ConnectionResetError
\* ("reset") or BrokenPipeError ("pipe").  In the OrderManager recv returns b'' and
\* the read function raises ConnectionResetError, or recv raises another OSError.
GSendFails(err) ==
    /\ gpc = "stream"
    /\ UNCHANGED notProd
    /\ gclient = "gone"
    /\ gleft' = err
    /\ gpc' = AfterSendError(err)
    /\ gopen' = IF err = "reset" THEN gopen \ {gconn} ELSE gopen
    /\ UNCHANGED <<gkind, gclient, gconn, gticks, gdialed, ggot>>

\* the OrderManager fails on an order it has read: json.JSONDecodeError (json) is
\* caught by its own clause, which goes back to accept(); a missing field
\* (KeyError) by `except Exception`, which sleeps 1 s.  Neither closes client_socket.
GParseFails(json) ==
    /\ gpc = "stream"
    /\ UNCHANGED notProd
    /\ gkind = "OM"
    /\ gticks < MaxMsgs
    /\ gticks' = gticks + 1
    /\ ggot' = [ggot EXCEPT ![gconn] = @ + 1]
    /\ gleft' = "parse"
    /\ gpc' = IF json THEN "accept" ELSE "sleep"
    /\ UNCHANGED <<gkind, gclient, gconn, gopen, gdialed>>

\* time.sleep(1) is over: the next pass of the outer loop, at accept()
GSleepOver ==
    /\ gpc = "sleep"
    /\ UNCHANGED notProd
    /\ gpc' = "accept"
    /\ UNCHANGED <<gkind, gclient, gconn, gticks, gopen, gleft, gdialed, ggot>>

\* one listening role and the dialers that connect to it
NextProd ==
    \/ GDial
    \/ GAccept
    \/ GSend
    \/ GClientGone
    \/ \E err \in {"reset", "pipe"} : GSendFails(err)
    \/ \E json \in BOOLEAN : GParseFails(json)
    \/ GSleepOver

(***************************************************************************)
(* The life of a handle and of the storage: cleanup and                    *)
(* close_shared_price_book (shared_memory_utils.py), and the shutdown path *)
(* of run_system (main.py).                                                *)
(***************************************************************************)
\* the attaching children, in the order of the list `processes`
Children == <<"ob", "st">>

\* p.is_alive() of a child
Alive(p) == tpc[p] \notin {"off", "exit", "dead"}

\* a handle on which cleanup() does nothing at all: self.shm was never set
NoShm(h) == ~h.open

UnlinksAny(h) == h.open /\ shm = "exists"

UnlinksUnopened(h) == h.is_creator /\ shm = "exists"

\* cleanup() of the handle h when it removes the storage: self.shm is set, the
\* handle is the creator's, and the name still exists (otherwise shm.unlink()
\* raises FileNotFoundError, which cleanup passes over)
Unlinks(h) == h.open /\ h.is_creator /\ shm = "exists"

\* the error self.shm.unlink() ends with inside cleanup(): the name is gone already
UnlinkError(h) ==
    IF h.open /\ h.is_creator /\ shm = "none" THEN "FileNotFoundError" ELSE "none"

PassesNothing(err) == err = "none"

\* cleanup's except clauses: FileNotFoundError is passed over, any other Exception
\* is printed; neither reaches the caller
Passes(err) == err \in {"none", "FileNotFoundError", "Exception"}

\* before any cleanup() call
NoCleanup == [who |-> "nobody", owner |-> FALSE, closedBefore |-> FALSE, gone |-> FALSE,
              changed |-> FALSE, removed |-> FALSE, raised |-> FALSE]

\* cleanup() of the object h held by `who`: nothing when self.shm is None, else
\* self.shm.close(), and self.shm.unlink() when the object is the creator's
CleanupOf(h, who) ==
    /\ closedH' = IF NoShm(h) THEN closedH ELSE closedH \cup {who}
    /\ shm' = IF Unlinks(h) THEN "none" ELSE shm
    /\ unlinks' = IF Unlinks(h) THEN unlinks + 1 ELSE unlinks
    /\ unlinkedBy' = IF Unlinks(h) THEN unlinkedBy \cup {who} ELSE unlinkedBy
    /\ lastCleanup' = [who |-> who,
                       owner |-> h.is_creator,
                       closedBefore |-> who \in closedH,
                       gone |-> shm = "none",
                       changed |-> ~NoShm(h) /\ (who \notin closedH \/ Unlinks(h)),
                       removed |-> Unlinks(h),
                       raised |-> ~NoShm(h) /\ ~Passes(UnlinkError(h))]
    /\ UNCHANGED <<opened, dup>>

\* cleanup() through the handle of the process p
CleanupEffect(p) == CleanupOf(handle[p], p)

\* run_system's shutdown, as the specifications that do not run it leave it
ShutOff ==
    /\ mpc = "off"
    /\ passes = 0
    /\ trigger = "none"
    /\ tidx = 0

\* no handle has been closed, nothing has been removed
LifeInit ==
    /\ closedH = {}
    /\ unlinks = 0
    /\ unlinkedBy = {}
    /\ lastCleanup = NoCleanup
    /\ opened = {}
    /\ dup = NoHandle

\* run_system at its first statement
ShutInit ==
    /\ mpc = "start"
    /\ passes = 0
    /\ trigger = "none"
    /\ tidx = 0

\* signal.signal(signal.SIGINT, signal_handler), after every child was started
HandlerInstalled ==
    /\ mpc = "start"
    /\ UNCHANGED notShut
    /\ tpc["main"] = "idle"
    /\ \A i \in DOMAIN Children : tpc[Children[i]] # "off"
    /\ mpc' = "wait"
    /\ UNCHANGED <<passes, trigger, tidx>>
    /\ UNCHANGED <<tableVars, lifeVars>>

\* SIGINT before the handler is installed: KeyboardInterrupt leaves run_system
\* through no except clause, and the interpreter exits
InterruptAtStart ==
    /\ mpc = "start"
    /\ UNCHANGED notShut
    /\ tpc["main"] = "idle"
    /\ mpc' = "exit"
    /\ trigger' = "sigint"
    /\ UNCHANGED <<passes, tidx>>
    /\ UNCHANGED <<tableVars, lifeVars>>

\* the wait loop is left for cleanup_processes: by the signal handler ("sigint"),
\* by `except Exception` ("error"), or because no child is alive ("alldead")
LeaveWait(why) ==
    /\ mpc = "wait"
    /\ UNCHANGED notShut
    /\ why = "alldead" => \A i \in DOMAIN Children : ~Alive(Children[i])
    /\ mpc' = "term"
    /\ trigger' = why
    /\ passes' = 1
    /\ tidx' = 1
    /\ UNCHANGED <<tableVars, lifeVars>>

\* a child process ends: killed, crashed, or a SIGTERM sent earlier takes effect
ChildEnds(p) ==
    /\ Alive(p)
    /\ UNCHANGED notShut
    /\ p # "main"
    /\ tpc' = [tpc EXCEPT ![p] = "dead"]
    /\ UNCHANGED <<shm, data_array, lock, handle, uarg, ridx, cur, snap, committed,
                   snapAt, unlocked>>
    /\ UNCHANGED lifeVars
    /\ UNCHANGED <<mpc, passes, trigger, tidx>>

\* cleanup_processes, one pass of `for p in processes`: if p.is_alive():
\* p.terminate(); p.join(timeout=1).  join returns when the child has ended
\* (ended) or when the second is over and it has not.
Terminate(ended) ==
    /\ mpc = "term"
    /\ UNCHANGED notShut
    /\ tidx <= Len(Children)
    /\ LET p == Children[tidx]
       IN tpc' = IF Alive(p) /\ ended THEN [tpc EXCEPT ![p] = "dead"] ELSE tpc
    /\ tidx' = tidx + 1
    /\ UNCHANGED <<shm, data_array, lock, handle, uarg, ridx, cur, snap, committed,
                   snapAt, unlocked>>
    /\ UNCHANGED lifeVars
    /\ UNCHANGED <<mpc, passes, trigger>>

\* cleanup_processes after the loop: shm_book.cleanup().  The handler's sys.exit(0)
\* is caught by `except SystemExit` of the wait loop, and the `except Exception`
\* branch falls through as well: in both cases the final cleanup_processes of
\* run_system follows as a second pass; after it run_system returns.
CleanupCall ==
    /\ mpc = "term"
    /\ UNCHANGED notShut
    /\ tidx > Len(Children)
    /\ CleanupEffect("main")
    /\ IF trigger \in {"sigint", "error"} /\ passes = 1
       THEN /\ mpc' = "term"
            /\ passes' = 2
            /\ tidx' = 1
       ELSE /\ mpc' = "exit"
            /\ UNCHANGED <<passes, tidx>>
    /\ UNCHANGED <<data_array, lock, tpc, handle, uarg, ridx, cur, snap, committed,
                   snapAt, unlocked>>
    /\ UNCHANGED trigger

\* the interpreter exits: the hook registered by atexit.register(self.cleanup)
\* runs, before multiprocessing joins the children that are left
AtExit ==
    /\ mpc = "exit"
    /\ UNCHANGED notShut
    /\ CleanupEffect("main")
    /\ mpc' = "done"
    /\ UNCHANGED <<data_array, lock, tpc, handle, uarg, ridx, cur, snap, committed,
                   snapAt, unlocked>>
    /\ UNCHANGED <<passes, trigger, tidx>>

\* run_system from the creation of the table to the exit of the interpreter
NextShut ==
    \/ CreateShm
    \/ InitRows
    \/ \E p \in Procs : StartChild(p)
    \/ \E p \in Procs : Attach(p)
    \/ HandlerInstalled
    \/ InterruptAtStart
    \/ \E why \in {"sigint", "error", "alldead"} : LeaveWait(why)
    \/ \E p \in Procs : ChildEnds(p)
    \/ \E ended \in BOOLEAN : Terminate(ended)
    \/ CleanupCall
    \/ AtExit

(***************************************************************************)
(* The calls on a handle that its holder may make at any time.             *)
(***************************************************************************)
\* what __init__ has set when SharedMemory(create=True) raises: the creator
\* flag, and no self.shm
FailedCreate == [open |-> FALSE, symbols |-> sorted(SYMBOLS), is_creator |-> TRUE]

\* cleanup() called by the holder of a SharedPriceBook, between two calls on it
Cleanup(p) ==
    /\ tpc[p] \in {"idle", "closed"}
    /\ UNCHANGED notShut
    /\ CleanupEffect(p)
    /\ tpc' = [tpc EXCEPT ![p] = "closed"]
    /\ UNCHANGED <<data_array, lock, handle, uarg, ridx, cur, snap, committed,
                   snapAt, unlocked>>
    /\ UNCHANGED shutVars

\* close_shared_price_book(shm_book) of an attaching role: shm.close(), no unlink
CloseBook(p) ==
    /\ tpc[p] \in {"idle", "closed"}
    /\ UNCHANGED notShut
    /\ p \in Range(Children)
    /\ closedH' = IF handle[p].open THEN closedH \cup {p} ELSE closedH
    /\ tpc' = [tpc EXCEPT ![p] = "closed"]
    /\ UNCHANGED <<shm, data_array, lock, handle, uarg, ridx, cur, snap, committed,
                   snapAt, unlocked>>
    /\ UNCHANGED <<unlinks, unlinkedBy, lastCleanup, opened, dup>>
    /\ UNCHANGED shutVars

\* SharedPriceBook(create=True) once more while the name is in use:
\* SharedMemory raises FileExistsError, __init__ prints it and raises it again
\* (with the name free the call is CreateShm)
CreateAgain ==
    /\ shm = "exists"
    /\ UNCHANGED notShut
    /\ dup = NoHandle
    /\ dup' = FailedCreate
    /\ UNCHANGED tableVars
    /\ UNCHANGED <<closedH, unlinks, unlinkedBy, lastCleanup, opened>>
    /\ UNCHANGED shutVars

\* cleanup() on the object of the failed creation
CleanupFailed ==
    /\ dup # NoHandle
    /\ UNCHANGED notShut
    /\ CleanupOf(dup, "dup")
    /\ UNCHANGED <<data_array, lock, tpc, handle, uarg, ridx, cur, snap, committed,
                   snapAt, unlocked>>
    /\ UNCHANGED shutVars

\* the name is removed by somebody else: SharedMemory(name).close(), .unlink() of
\* the unit test's setUpClass, run against a name that is in use
ExternalUnlink ==
    /\ shm = "exists"
    /\ UNCHANGED notShut
    /\ shm' = "none"
    /\ UNCHANGED <<data_array, lock, tpc, handle, uarg, ridx, cur, snap, committed,
                   snapAt, unlocked>>
    /\ UNCHANGED lifeVars
    /\ UNCHANGED shutVars

\* an attaching role, past its SharedPriceBook(create=False), opens its socket
RoleConnect(p) ==
    /\ tpc[p] = "idle"
    /\ UNCHANGED notShut
    /\ p \in Range(Children)
    /\ p \notin opened
    /\ opened' = opened \cup {p}
    /\ UNCHANGED tableVars
    /\ UNCHANGED <<closedH, unlinks, unlinkedBy, lastCleanup, dup>>
    /\ UNCHANGED shutVars

\* the owner and the attaching roles creating, attaching, updating, closing
NextLife ==
    \/ CreateShm
    \/ InitRows
    \/ \E p \in Procs : StartChild(p)
    \/ \E p \in Procs : Attach(p)
    \/ \E p \in Procs, symbol \in Range(SYMBOLS) \cup {Foreign}, price \in Prices :
          UpdateCall(p, symbol, price)
    \/ \E p \in Procs : UpdateAcquire(p)
    \/ \E p \in Procs : UpdateWrite(p)
    \/ \E p \in Procs : Cleanup(p)
    \/ \E p \in Procs : CloseBook(p)
    \/ CreateAgain
    \/ CleanupFailed
    \/ ExternalUnlink
    \/ \E p \in Procs : RoleConnect(p)

(***************************************************************************)
(* The roles at the table, any child of which may stop at any point.       *)
(***************************************************************************)
\* the OrderBook writing and the Strategy reading the table main has created, and
\* a child that ends where it is: p.terminate() of cleanup_processes or a signal
\* from outside end it between two bytecodes, and nothing of its
\* `with self.lock:` block runs after that
NextKill ==
    \/ CreateShm
    \/ InitRows
    \/ \E p \in Range(Children) : StartChild(p)
    \/ \E p \in Range(Children) : Attach(p)
    \/ \E symbol \in Range(SYMBOLS), price \in Prices : UpdateCall("ob", symbol, price)
    \/ UpdateAcquire("ob")
    \/ UpdateWrite("ob")
    \/ ReadAcquire("st")
    \/ ReadRow("st")
    \/ ReadReturn("st")
    \/ \E p \in Range(Children) : ChildEnds(p)

(***************************************************************************)
(* The start of the system, with or without a segment left by an earlier   *)
(* run.                                                                    *)
(***************************************************************************)
\* the rows of a segment an earlier run did not remove
Leftovers ==
    {[i \in DOMAIN SYMBOLS |-> [symbol |-> U10(sorted(SYMBOLS)[i]), price |-> f[i]]] :
        f \in [DOMAIN SYMBOLS -> Prices \cup {0}]}

\* run_system is entered: no role runs yet, the name is free or taken
StartInit ==
    /\ shm \in {"none", "exists"}
    /\ data_array \in (IF shm = "none" THEN {<<>>} ELSE Leftovers)
    /\ lock = NoProc
    /\ tpc = [p \in Procs |-> IF p = "main" THEN "create" ELSE "off"]
    /\ handle = [p \in Procs |-> NoHandle]
    /\ uarg = [p \in Procs |-> NoArg]
    /\ ridx = [p \in Procs |-> 0]
    /\ cur = [p \in Procs |-> EmptyDict]
    /\ snap = [p \in Procs |-> [done |-> FALSE, state |-> EmptyDict, at |-> EmptyDict]]
    /\ committed = [s \in {U10(x) : x \in Range(SYMBOLS)} |-> 0]
    /\ snapAt = [p \in Procs |-> EmptyDict]
    /\ unlocked = {}

\* run_system up to the end of its start loop, and the roles it has started at
\* the table
NextStart ==
    \/ CreateShm
    \/ CreateFails
    \/ InitRows
    \/ \E p \in Range(Children) : StartChild(p)
    \/ \E p \in Range(Children) : Attach(p)
    \/ \E symbol \in Range(SYMBOLS), price \in Prices : UpdateCall("ob", symbol, price)
    \/ UpdateAcquire("ob")
    \/ UpdateWrite("ob")
    \/ ReadAcquire("st")
    \/ ReadRow("st")
    \/ ReadReturn("st")

(***************************************************************************)
(* The price consumer next to a reader of the table.                       *)
(***************************************************************************)
\* the messages price_streamer writes: one SYMBOL,PRICE pair for every symbol of
\* SYMBOLS, in the order of the list, each price with its decimals
Ticks ==
    {[i \in DOMAIN SYMBOLS |-> [symbol |-> SYMBOLS[i], text |-> t[i]]] :
        t \in [DOMAIN SYMBOLS -> Decimals]}

\* the OrderBook handling the streamer's messages while the Strategy, once
\* started and attached, calls read_all
NextMix ==
    \/ \E fs \in Ticks : ReceivePrice(fs)
    \/ ParseSymbol
    \/ ParseEnd
    \/ ReadAgain
    \/ StartChild("st")
    \/ Attach("st")
    \/ ReadAcquire("st")
    \/ ReadRow("st")
    \/ ReadReturn("st")

(***************************************************************************)
(* The price consumer and a sender that adds a symbol the table lacks.     *)
(***************************************************************************)
\* the pairs fs with the pair f put in after the k-th of them
InsertAt(fs, k, f) == SubSeq(fs, 1, k) \o <<f>> \o SubSeq(fs, k + 1, Len(fs))

\* the streamer's messages with one more pair, for a symbol outside SYMBOLS, before,
\* between or after the pairs of the table's symbols
ForeignTicks ==
    {InsertAt(fs, k, [symbol |-> Foreign, text |-> t]) :
        fs \in Ticks, k \in 0..Len(SYMBOLS), t \in Decimals}

\* the OrderBook handling such messages one after the other
NextForeign ==
    \/ \E fs \in ForeignTicks : ReceivePrice(fs)
    \/ ParseSymbol
    \/ ParseEnd
    \/ ReadAgain

(***************************************************************************)
(* update() as one call, with what it was given and what it found.         *)
(***************************************************************************)
\* update(symbol, price) by a holder of the table, from the membership test to the
\* release of the lock; `before` keeps the rows the call found, `calls` the call
Update(p, symbol, price) ==
    /\ ppc = "read"
    /\ UNCHANGED notPrice
    /\ p \in Writers
    /\ tpc[p] = "idle"
    /\ LockFree(p)
    /\ data_array' = RowsAfterUpdate(data_array, handle[p], symbol, price)
    /\ before' = data_array
    /\ calls' = <<[symbol |-> symbol, price |-> price]>>
    /\ UNCHANGED <<symbols, raw_message, ppc, pidx, parsed_ticks, perr, fields>>

\* the owner and the OrderBook calling update, with symbols of the table and others
NextUpdate ==
    \E p \in Procs, symbol \in {sA, sB, s7, sAB, Foreign}, price \in Prices :
        Update(p, symbol, price)

(***************************************************************************)
(* The specifications.                                                     *)
(***************************************************************************)
InitTable == TableInit /\ FrameOff /\ PriceOff /\ StratOff /\ ProdOff /\ LifeInit /\ ShutOff

SpecTable == InitTable /\ [][NextTable]_vars

InitFrame == FrameInit /\ TableOff /\ PriceOff /\ StratOff /\ ProdOff /\ LifeInit /\ ShutOff

SpecFrame == InitFrame /\ [][NextFrame]_vars

InitPrice == PriceInit /\ FrameOff /\ StratOff /\ ProdOff /\ LifeInit /\ ShutOff

SpecPrice == InitPrice /\ [][NextPrice]_vars

InitStrat == StratInit /\ TableOff /\ FrameOff /\ PriceOff /\ ProdOff /\ LifeInit /\ ShutOff

SpecStrat == InitStrat /\ [][NextStrat]_vars

\* the Strategy process keeps running: a connect() it is at returns, a sleep it is
\* in ends (nothing is assumed of the OrderManager or of the news stream)
SpecStratFair ==
    /\ SpecStrat
    /\ WF_vars(ConnectOM)
    /\ WF_vars(OMSleepOver)

\* any one of the five socket roles in its connection loop: a consumer, or a producer
InitLoops ==
    /\ TableOff /\ PriceOff /\ StratOff /\ LifeInit /\ ShutOff
    /\ \/ FrameInit /\ ProdOff
       \/ FrameOff /\ ProdInit

NextLoops == NextFrame \/ NextProd

SpecLoops == InitLoops /\ [][NextLoops]_vars

InitProd == ProdInit /\ TableOff /\ FrameOff /\ PriceOff /\ StratOff /\ LifeInit /\ ShutOff

SpecProd == InitProd /\ [][NextProd]_vars

InitShut == TableInit /\ LifeInit /\ ShutInit /\ FrameOff /\ PriceOff /\ StratOff /\ ProdOff

SpecShut == InitShut /\ [][NextShut]_vars

InitStart == StartInit /\ FrameOff /\ PriceOff /\ StratOff /\ ProdOff /\ LifeInit /\ ShutOff

SpecStart == InitStart /\ [][NextStart]_vars

SpecKill == InitTable /\ [][NextKill]_vars

InitMix == InitPrice /\ symbols = SYMBOLS

SpecMix == InitMix /\ [][NextMix]_vars

SpecForeign == InitMix /\ [][NextForeign]_vars

SpecUpdate == InitPrice /\ [][NextUpdate]_vars

InitLife == TableInit /\ LifeInit /\ ShutOff /\ FrameOff /\ PriceOff /\ StratOff /\ ProdOff

SpecLife == InitLife /\ [][NextLife]_vars

(***************************************************************************)
(* Claims about the shared table.                                          *)
(***************************************************************************)

\* C1: every price of every snapshot read_all returned is the value of the last
\* update of that symbol completed before the snapshot took the lock, or the
\* initial 0 when there was none (`at` is that value, recorded at the lock).
C1_SnapshotIsLastCompleted ==
    \A p \in Procs : snap[p].done =>
        /\ DOMAIN snap[p].state = DOMAIN snap[p].at
        /\ \A s \in DOMAIN snap[p].state :
              snap[p].state[s] = snap[p].at[s]

\* C1 witness: a snapshot was returned holding a written price, a later update has
\* already replaced that price in the table, and a writer is waiting for the lock
\* that the next read_all holds.
C1_Witness ==
    \E p \in Procs, q \in Procs, s \in DOMAIN committed :
        /\ snap[p].done
        /\ snap[p].state[s] # 0
        /\ snap[p].state[s] # committed[s]
        /\ tpc[p] = "rd_copy"
        /\ tpc[q] = "upd_wait"

\* C6: every read or write of a price field, the initial write of 0.0 at creation
\* included, is made by a process that holds the table's lock.
C6_EveryAccessHoldsLock == unlocked = {}

(***************************************************************************)
(* Claims about the framing and the connection loops.                      *)
(***************************************************************************)

\* C2: on one connection, whatever the chunks are, the bytes received so far are the
\* messages returned so far, each followed by the delimiter, followed by the receive
\* buffer; and the messages returned are, in order, the first payloads the peer wrote.
C2_StreamAccounted ==
    /\ received = Flatten(returned) \o recv_buffer
    /\ Len(returned) <= Len(sent)
    /\ returned = SubSeq(sent, 1, Len(returned))

\* C2 witness: two messages were returned after several recv calls, a part of the
\* next one is in the buffer and the rest of it is still in flight.
C2_Witness ==
    /\ Len(returned) = 2
    /\ recvCount >= 3
    /\ recv_buffer # <<>>
    /\ wire # <<>>

\* C3: every byte of a returned message, and every byte of the buffer of a connected
\* consumer, was received on the current connection (for each of the three roles).
C3_NoBytesAcrossConnections ==
    /\ \A i \in DOMAIN rawFrom : rawFrom[i] = conn
    /\ cpc \in Connected => \A i \in DOMAIN bufFrom : bufFrom[i] = conn

\* C3 witness: the previous connection ended with a partial message in the buffer,
\* and the first message of the next connection has been returned.
C3_Witness ==
    /\ conn = 2
    /\ stale
    /\ cpc = "handle"
    /\ Len(returned) = 1
    /\ raw # <<>>

\* C4: in the OrderBook and the OrderManager, a step taken while a message that
\* fails the schema parse is being handled leaves the role connected to the same
\* connection (it goes on to the next read).
C4_MalformedKeepsConnection ==
    [][(role \in {"OB", "OM"} /\ cpc = "handle" /\ Classify(raw) # "ok")
          => (cpc' \in {"handle", "read"} /\ conn' = conn)]_vars

\* C7: after a chunk of k complete payloads arrived in an empty buffer, the next
\* messages returned are those payloads in order, no further recv is made until
\* all k are returned, and the buffer is empty once the k-th is returned.
C7_BurstServedFromBuffer ==
    burst.active =>
        LET k == Len(burst.msgs)
            j == Len(returned) - burst.base
        IN /\ j <= k
           /\ SubSeq(returned, burst.base + 1, Len(returned)) = SubSeq(burst.msgs, 1, j)
           /\ recvCount = burst.recvAt
           /\ j = k => recv_buffer = <<>>

\* C7 witness: a chunk of three payloads arrived and all three have been returned.
C7_Witness ==
    /\ burst.active
    /\ Len(burst.msgs) = 3
    /\ Len(returned) - burst.base = 3

\* C8: once recv has returned zero bytes, the read has failed with the role's
\* stream-closed error (the loop is out of CONNECTED) and no message was returned
\* by that call, whether the buffer was empty or held a partial payload.
C8_ZeroBytesRaises ==
    zeroRead.seen =>
        /\ cpc \in {"backoff", "connect"}
        /\ leftBy = "closed"
        /\ Len(returned) = zeroRead.nret

\* C8 witness: recv returned zero bytes while the buffer held a partial payload.
C8_Witness ==
    /\ zeroRead.seen
    /\ recv_buffer # <<>>
    /\ Find(recv_buffer, MESSAGE_DELIMITER, 0) = -1

(***************************************************************************)
(* Claims about the order connection.                                      *)
(***************************************************************************)

\* C5: when a send on the order connection fails, the Strategy gives the
\* connection up: it no longer holds the connection to be up (om_connected), so
\* that the next pass of its main loop connects again.
C5_FailedSendDropsConnection ==
    [][failed' # failed => ~om_connected']_vars

(***************************************************************************)
(* Claims about the price parser.                                          *)
(***************************************************************************)

\* C9: when no symbol of the list is a substring of another and the message is
\* the concatenation of one SYMBOL,PRICE pair per tracked symbol with plain decimal
\* prices, handling it makes exactly one update per symbol, with that symbol's
\* price, and the table then maps every symbol to its price of the message.
C9_EveryPairParsed ==
    LET complete == /\ Len(fields) = Len(symbols)
                    /\ {fields[k].symbol : k \in DOMAIN fields} = Range(symbols)
                    /\ \A k \in DOMAIN fields : fields[k].text \in Decimals
        noSubstring == \A i, j \in DOMAIN symbols :
                          i # j => Find(symbols[i], symbols[j], 0) = -1
        own(k) == Float(fields[k].text).value
    IN (ppc = "handled" /\ complete /\ noSubstring) =>
          /\ ~perr
          /\ Len(calls) = Len(symbols)
          /\ \A k \in DOMAIN fields :
                \E c \in DOMAIN calls :
                    calls[c] = [symbol |-> fields[k].symbol, price |-> own(k)]
          /\ \A k \in DOMAIN fields :
                /\ U10(fields[k].symbol) \in DOMAIN RowsAsDict(data_array)
                /\ RowsAsDict(data_array)[U10(fields[k].symbol)] = own(k)

\* C10: when the handling of a message ended with a parse failure, the rows of
\* the table are what they were when the message was received.
C10_FailedParseChangesNothing ==
    (ppc = "handled" /\ perr) => data_array = before

(***************************************************************************)
(* Claims about the handling of errors by the connection loops.            *)
(***************************************************************************)

\* C11: a step taken while the Strategy holds a news message that is not a JSON
\* number leaves it on the same news connection, with its socket open and its
\* receive buffer kept, handling the message or reading the next one.
C11_NewsParseKeepsConnection ==
    [][(role = "NEWS" /\ cpc = "handle" /\ Classify(raw) # "ok")
          => /\ cpc' \in {"handle", "read"}
             /\ conn' = conn
             /\ conn \in openSocks'
             /\ \E k \in 0..Len(recv_buffer') :
                   recv_buffer = SubSeq(recv_buffer', 1, k)]_vars

\* C12: no role is ever outside its connection loop, and a role whose connection
\* was ended by a transport error (peer close or read error for a consumer, write
\* failure for a producer) is DISCONNECTED, at its connect/accept or in the sleep
\* before it, until it has a new connection.
C12_TransportErrorsReturnToDisconnected ==
    /\ cpc \in {"off", "connect", "backoff", "read", "recv", "handle"}
    /\ gpc \in {"off", "accept", "sleep", "stream"}
    /\ leftBy \in {"closed", "error"} => cpc \in {"connect", "backoff"}
    /\ gleft \in {"reset", "pipe"} => gpc \in {"accept", "sleep"}

\* a producer whose write failed with a broken pipe has slept and is at accept()
\* again; (the consumers' case is C8_Witness)
C12_Witness ==
    /\ gleft = "pipe"
    /\ gpc = "accept"
    /\ gconn = 1
    /\ gticks > 0

\* C13: if from some point on the OrderManager is listening and stays up, the
\* Strategy, which retries its connect after each backoff, eventually holds a
\* connection to it.
C13_DialerEventuallyConnected ==
    <>[](om_state # "down") => <>om_connected

(***************************************************************************)
(* Claims about the life of the storage.                                   *)
(***************************************************************************)

\* C14: the storage is removed at most once, by the owner only, and whenever it
\* has been removed no child that attached to it is still alive.
C14_RemovedAfterChildrenStopped ==
    /\ unlinks <= 1
    /\ unlinkedBy \subseteq {"main"}
    /\ shm = "none" => \A i \in DOMAIN Children :
                          handle[Children[i]].open => ~Alive(Children[i])

\* C15: a process that attached to the table never removes the storage: a
\* cleanup() or close_shared_price_book() on a handle that is not the creator's
\* leaves the name and the prices as they were, the name is only ever removed
\* through a creator's handle, and an attach made while the name exists succeeds.
C15_AttacherNeverRemoves ==
    [][/\ \A p \in Range(Children) :
             \/ p \in closedH' /\ p \notin closedH
             \/ lastCleanup' # lastCleanup /\ lastCleanup'.who = p
             => shm' = shm /\ data_array' = data_array
       /\ unlinkedBy' \subseteq {p \in Procs : handle[p].is_creator}
       /\ \A q \in Range(Children) :
             tpc[q] = "attach" /\ shm = "exists" /\ tpc'[q] # "attach"
             => handle'[q].open /\ tpc'[q] = "idle"]_vars

\* the OrderBook has called cleanup() on its handle, the name still exists with a
\* price written, and the Strategy is attached
C15_Witness ==
    /\ lastCleanup.who = "ob"
    /\ ~lastCleanup.owner
    /\ "ob" \in closedH
    /\ shm = "exists"
    /\ \E i \in DOMAIN data_array : data_array[i].price > 0
    /\ handle["st"].open
    /\ tpc["st"] = "idle"

\* C16: cleanup() is idempotent: a call on a handle that was closed before, or made
\* when the name is already gone, raises nothing and changes nothing further; the
\* name is removed at most once, by the first call on the creator's handle.
C16_CleanupIdempotent ==
    /\ ~lastCleanup.raised
    /\ lastCleanup.closedBefore => ~lastCleanup.changed
    /\ lastCleanup.gone => ~lastCleanup.removed
    /\ lastCleanup.removed => lastCleanup.owner /\ ~lastCleanup.closedBefore
    /\ unlinks <= 1

\* the owner has called cleanup() again on the handle whose first call removed the name
C16_Witness ==
    /\ lastCleanup.who = "main"
    /\ lastCleanup.closedBefore
    /\ lastCleanup.gone
    /\ unlinks = 1

\* C17: an attach made while no storage exists under the name fails and creates
\* nothing, and the role exits: it keeps no handle, opens no socket, and is never
\* inside update or read_all; only a role whose attach succeeded gets that far.
C17_MissingAttachIsFatal ==
    [][\A p \in Range(Children) :
          /\ tpc[p] = "attach" /\ shm = "none" /\ tpc'[p] # "attach"
             => /\ tpc'[p] = "exit"
                /\ shm' = "none"
                /\ handle'[p] = NoHandle
                /\ data_array' = data_array
          /\ tpc[p] = "exit" => tpc'[p] = "exit" /\ handle'[p] = handle[p]
          /\ tpc'[p] = "exit" => p \notin opened' /\ ~handle'[p].open
          /\ tpc'[p] \in {"upd_wait", "upd_write", "rd_copy"} \/ p \in opened'
             => handle'[p].open]_vars

\* the OrderBook was started, the name was removed before it attached, and it has
\* exited, while the Strategy, attached earlier, has its socket open
C17_Witness ==
    /\ tpc["ob"] = "exit"
    /\ handle["ob"] = NoHandle
    /\ shm = "none"
    /\ handle["main"].open
    /\ "st" \in opened

\* C18: a second SharedPriceBook(create=True) under a name in use fails and leaves
\* the storage as it was: the name still exists, the prices and the handles are
\* unchanged, and cleanup() on the object of the failed call removes nothing.
C18_SecondCreateLeavesStorage ==
    [][/\ dup' # dup
          => /\ dup' = FailedCreate
             /\ NoShm(dup')
             /\ shm = "exists" /\ shm' = "exists"
             /\ data_array' = data_array
             /\ handle' = handle
       /\ lastCleanup' # lastCleanup /\ lastCleanup'.who = "dup"
          => /\ shm' = shm
             /\ data_array' = data_array
             /\ ~lastCleanup'.removed
       /\ "dup" \notin unlinkedBy']_vars

\* the second creation has failed and cleanup() was called on its object; the name
\* still exists with a price written and the OrderBook attached
C18_Witness ==
    /\ dup = FailedCreate
    /\ lastCleanup.who = "dup"
    /\ shm = "exists"
    /\ \E i \in DOMAIN data_array : data_array[i].price > 0
    /\ handle["ob"].open

\* C19: update(symbol, price) changes at most one cell: the symbols of the rows stay
\* as they are; for a symbol of the table the row of that symbol gets the price and
\* every other row keeps its price; for any other symbol the rows are the rows the
\* call found.
C19_UpdateChangesOneCell ==
    calls # NoCalls /\ before # <<>> =>
        LET c == calls[Len(calls)]
        IN /\ DOMAIN data_array = DOMAIN before
           /\ \A i \in DOMAIN before : data_array[i].symbol = before[i].symbol
           /\ IF c.symbol \in Range(symbols)
              THEN \E i \in DOMAIN before :
                      /\ before[i].symbol = U10(c.symbol)
                      /\ data_array[i].price = c.price
                      /\ \A j \in DOMAIN before \ {i} : data_array[j].price = before[j].price
              ELSE data_array = before

\* update was called with a symbol outside the table after prices had been written
C19_Witness ==
    /\ calls # NoCalls
    /\ calls[Len(calls)].symbol \notin Range(symbols)
    /\ \A i \in DOMAIN before : before[i].price > 0
    /\ \E i, j \in DOMAIN before : before[i].price # before[j].price

\* C20: a snapshot taken after the creation and before any update has completed (by
\* the owner or by an attacher) has exactly the symbols of the table as keys, each
\* with the price 0.
C20_FreshSnapshotAllZero ==
    \A p \in Readers :
        snap[p].done /\ (\A s \in DOMAIN snap[p].at : snap[p].at[s] = 0)
        => snap[p].state = [s \in Range(SYMBOLS) |-> 0]

\* the Strategy, attached, and the owner have each had a snapshot returned that
\* was taken before any update
C20_Witness ==
    /\ snap["st"].done
    /\ snap["main"].done
    /\ \A p \in Readers : \A s \in DOMAIN snap[p].at : snap[p].at[s] = 0
    /\ DOMAIN snap["st"].state = Range(SYMBOLS)
    /\ handle["st"].open /\ ~handle["st"].is_creator

(***************************************************************************)
(* Claims about empty messages, order ids, peers, sockets and start-up.    *)
(***************************************************************************)

\* C21: an empty payload the peer wrote (two delimiters in a row) is returned by the
\* read function as an empty message of its own, at its place between the messages
\* before and after it: it is never passed over.
C21_EmptyMessageReturned ==
    /\ \A i \in DOMAIN returned :
          /\ i \in DOMAIN sent
          /\ (sent[i] = <<>>) <=> (returned[i] = <<>>)
          /\ sent[i] = <<>> /\ i > 1 => returned[i - 1] = sent[i - 1]
    /\ cpc = "handle" /\ returned # <<>> /\ sent[Len(returned)] = <<>> => raw = <<>>
    /\ (Len(recv_buffer) > 0 /\ recv_buffer[1] = NL /\ cpc = "handle")
          => Extract(recv_buffer).found /\ Extract(recv_buffer).message = <<>>

\* an empty message was returned between two messages that are not empty
C21_Witness ==
    /\ Len(returned) = 3
    /\ returned[1] # <<>>
    /\ returned[2] = <<>>
    /\ returned[3] # <<>>
    /\ cpc = "handle"

\* C22: the orders of one Strategy process carry the ids 1, 2, 3, ...: every order
\* generated, sent or not, takes the current counter as its id and moves the counter
\* up by one; nothing else moves it, whatever happens to the news connection or to
\* the order connection; so the ids handed out are never reused.
C22_OrderIdsIncreaseByOne ==
    [][/\ order_counter' \in {order_counter, order_counter + 1}
       /\ order_counter' >= 1
       /\ Len(om_wire') > Len(om_wire)
          => om_wire'[Len(om_wire')] = order_counter /\ order_counter' = order_counter + 1
       /\ failed' # failed
          => failed' = failed \cup {order_counter} /\ order_counter' = order_counter + 1
       /\ position' # position => order_counter' = order_counter + 1
       /\ \A i \in DOMAIN om_wire' : om_wire'[i] < order_counter'
       /\ \A i \in DOMAIN delivered' : delivered'[i] < order_counter'
       /\ \A i, j \in DOMAIN delivered' : i < j => delivered'[i] < delivered'[j]
       /\ \A id \in failed' : id < order_counter'
                /\ \A i \in DOMAIN delivered' : delivered'[i] # id]_vars

\* three orders were generated: one was received by the OrderManager, a later one
\* failed in its send, and the news connection is being set up again
C22_Witness ==
    /\ order_counter = 4
    /\ delivered # <<>>
    /\ failed # {}
    /\ spc = "news_sleep"

\* C27: the recorded position and the order counter follow the orders that were
\* written to the order connection: a send that failed changes neither of them.
C27_FailedSendLeavesPosition ==
    [][failed' # failed => position' = position /\ order_counter' = order_counter]_vars

\* C23: a listening role serves one peer at a time: it accepts only at accept()
\* (DISCONNECTED), taking the dialers in turn; a message is exchanged only with the
\* peer accepted last, while the role is in its inner loop; a dialer waiting in the
\* backlog has exchanged nothing; and the role never holds more than one accepted
\* socket open, so the previous peer's connection is over on the role's side when
\* the next one is served.
C23_OnePeerAtATime ==
    [][/\ gconn' # gconn
          => gpc = "accept" /\ gconn' = gconn + 1 /\ gconn' <= gdialed /\ gpc' = "stream"
       /\ \A d \in Dialers :
             ggot'[d] # ggot[d] => d = gconn /\ gpc = "stream" /\ ggot'[d] = ggot[d] + 1
       /\ \A d \in Dialers : d > gconn' => ggot'[d] = 0
       /\ gopen' \subseteq {gconn'}]_vars

\* a second dialer connected while the first was being served; the first got its
\* messages, left, and the second is now served and has got a message
C23_Witness ==
    /\ gconn = 2
    /\ gpc = "stream"
    /\ ggot[1] > 1
    /\ ggot[2] > 0
    /\ gopen = {2}

\* C25: a role that has left CONNECTED holds no open socket of the connection it
\* left: whenever a dialing role is at connect() or in its backoff, and whenever a
\* listening role is at accept() or in its backoff, every socket of its earlier
\* connections has been closed.
C25_OldSocketClosedBeforeRetry ==
    /\ cpc \in {"connect", "backoff"} => openSocks = {}
    /\ gpc \in {"accept", "sleep"} => gopen = {}

\* C24: the price consumer applies the pairs of one message by one update() call
\* each, every call its own critical section: a step that changes the table changes
\* one row, is one more call, and is taken with the lock free before and after it,
\* so that a reader can take the lock between two symbols of a message.
C24_OneSymbolPerCriticalSection ==
    [][/\ lock' # "ob"
       /\ data_array' # data_array
          => /\ lock = NoProc /\ lock' = NoProc
             /\ Cardinality({i \in DOMAIN data_array : data_array'[i] # data_array[i]}) = 1
             /\ Len(calls') = Len(calls) + 1
       /\ tpc["st"] = "rd_copy" => data_array' = data_array]_vars

\* the consumer is between the first and the second symbol of a message; the
\* Strategy holds the lock and has copied every row: the first symbol with its
\* price of this message, the second still with its price of the message before,
\* which differs from the one this message brings
C24_Witness ==
    /\ ppc = "parse"
    /\ pidx = 2
    /\ tpc["st"] = "rd_copy"
    /\ ridx["st"] > Len(data_array)
    /\ before # <<>>
    /\ \A i \in DOMAIN before : before[i].price > 0
    /\ cur["st"][symbols[1]] = Float(fields[1].text).value
    /\ cur["st"][symbols[1]] # RowsAsDict(before)[symbols[1]]
    /\ cur["st"][symbols[2]] = RowsAsDict(before)[symbols[2]]
    /\ cur["st"][symbols[2]] # Float(fields[2].text).value

\* C26: the table lock is never left held by a process that no longer runs: whoever
\* holds it is alive, so that a surviving role's update or read_all gets it in the end.
C26_LockHolderRuns == lock # NoProc => Alive(lock)

\* C28: after the handling of a message that has one pair for every symbol of the
\* table and one more pair for a symbol the table lacks, every row holds its symbol's
\* own price of that message, and no parse failure was reported.
C28_ForeignPairIgnored ==
    (ppc = "handled" /\ fields # <<>>) =>
        /\ ~perr
        /\ \A k \in DOMAIN fields :
              fields[k].symbol \in Range(symbols) =>
                 RowsAsDict(data_array)[U10(fields[k].symbol)] = Float(fields[k].text).value

\* C29: a child is started only when main holds the created table, every row of
\* which has its symbol, and its price 0.0 while no role has run; no started role
\* ends for want of the storage; and when the creation has failed every child stays
\* unstarted.
C29_TableBeforeChildren ==
    [][/\ \A p \in Range(Children) :
             (tpc[p] = "off" /\ tpc'[p] # "off") =>
                /\ tpc["main"] = "idle"
                /\ shm = "exists"
                /\ handle["main"].open /\ handle["main"].is_creator
                /\ \A i \in DOMAIN SYMBOLS :
                      data_array[i].symbol = U10(sorted(SYMBOLS)[i])
                /\ (\A q \in Range(Children) : tpc[q] = "off") =>
                      \A i \in DOMAIN data_array : data_array[i].price = 0
       /\ \A p \in Range(Children) : tpc'[p] # "exit"
       /\ \A p \in Range(Children) : tpc[p] = "attach" /\ tpc'[p] # "attach" => handle'[p].open
       /\ tpc'["main"] = "exit" => \A p \in Range(Children) : tpc'[p] = "off"]_vars

\* both attaching roles were started and have attached, and the OrderBook has
\* written a price the Strategy has read
C29_Witness ==
    /\ \A p \in Range(Children) : handle[p].open /\ ~handle[p].is_creator
    /\ tpc["main"] = "idle"
    /\ snap["st"].done
    /\ \E s \in DOMAIN snap["st"].state : snap["st"].state[s] > 0

====
